---- MODULE Spec2Model ----
(***************************************************************************)
(* Verification model of the yoga pose detector:                           *)
(*   - PoseDetectionSmoother (src/src/app/poseHelpers.ts)                  *)
(*   - classifyPose          (utils/poseClassifier.ts, src/unnamed/part_005)*)
(*   - the YogaPoseDetector component's camera handlers and detection loop *)
(*     (src/unnamed/part_006, src/src/app/YogaPoseDetector.tsx)            *)
(*                                                                         *)
(* Numbers.  Scores and confidences are JS doubles in [0,1]; the model     *)
(* keeps them as integer percent (0.5 is 50) and every average or score    *)
(* as an exact fraction [num, den], compared by cross-multiplication.      *)
(* Time is Date.now() in milliseconds, a non-decreasing clock.             *)
(***************************************************************************)
EXTENDS Integers, Sequences, FiniteSets, TLC

VARIABLES
    recentPoses,   \* PoseDetectionSmoother.recentPoses
    now,           \* the value Date.now() returns
    adds,          \* number of addPoseDetection calls so far (numbers the entries)
    resetAt,       \* value of adds at the last reset(), -1 before any reset
    ticks,         \* number of clock advances so far
    result,        \* what getSmoothedPose() returned, when it was the last call
    outliers,      \* number of detections added so far that disagree with the rest
    frame,         \* the keypoints handed to classifyPose
    classified,    \* what classifyPose returned for frame, and where it returned
    \* YogaPoseDetector: React state
    isModelLoaded, posesData, isCameraOn, isCameraLoading, error, facingMode,
    posesLoad,     \* loadPosesData: "pending", "done" or "failed"
    currentPose, confidence, poseCount, lastDetectedPose,
    selectedPoseIndex, matchedPose,
    \* YogaPoseDetector: refs and what runs outside React
    srcObject,     \* videoRef.current.srcObject: "null", "live" or "stopped" (tracks stopped)
    camera,        \* the startCamera call in flight: [at, mode]
    loop,          \* the detection-loop effect: [scheduled, deps], deps as of its last run
    \* bookkeeping of the model
    framesSinceOn, \* frames processed since the camera went on, counted up to 3
    called,        \* the helper functions the last handler called
    contextStale,  \* the context changed and PoseDetectionSmoother.reset() was not called since
    detectedPoses, \* the names of the poses detected so far at or above the threshold
    \* PosePanel: the image inside detectedImageDivRef
    detectedImage, \* NoImage, Placeholder or the name of the catalog entry whose image it is
    \* YogaPoseDetector: its life as a component
    mounted,       \* FALSE after the unmount: effect cleanups ran, videoRef.current is null
    landmarkerRef, \* landmarkerRef.current: "null" or "landmarker"
    modelLoad,     \* loadPoseModel: "pending", "installed", "closed" or "failed"
    run,           \* the pose of the run of detected frames in progress, "" if none
    \* poseHelpers: one call of a helper function
    kps,           \* its first argument (keypoints, detectedKeypoints, detectedAngles)
    refKps,        \* its second argument (referenceKeypoints, referenceAngles), if any
    out            \* the function called and what it returned

smootherVars == <<recentPoses, now, adds, resetAt, ticks, result, outliers>>
classifierVars == <<frame, classified>>
cameraVars == <<isCameraOn, isCameraLoading, error, facingMode, srcObject, camera>>
poseVars == <<currentPose, confidence, poseCount, lastDetectedPose,
              selectedPoseIndex, matchedPose>>
dataVars == <<posesData, posesLoad>>
lifeVars == <<mounted, landmarkerRef, modelLoad>>
appVars == <<isModelLoaded, dataVars, cameraVars, poseVars, loop,
             framesSinceOn, called, contextStale, detectedPoses, detectedImage,
             lifeVars, run>>

helperVars == <<kps, refKps, out>>

vars == <<smootherVars, classifierVars, appVars, helperVars>>

(***************************************************************************)
(* Bounds of the model                                                     *)
(***************************************************************************)
MaxAdds == 5        \* addPoseDetection calls per behaviour, SpecScore
MaxTimedAdds == 4   \* addPoseDetection calls per behaviour, Spec
MaxCapAdds == 12    \* addPoseDetection calls per behaviour, SpecCap
MaxTicks == 2       \* clock advances per behaviour
MaxPoseCount == 2   \* increments of poseCount per behaviour, SpecApp
MaxOutlierAdds == 11 \* addPoseDetection calls per behaviour, SpecOutlier
MaxOutliers == 1    \* disagreeing detections per behaviour, SpecOutlier

(***************************************************************************)
(* Program constants                                                       *)
(***************************************************************************)
MaxHistoryLength == 10     \* maxHistoryLength default
ConsistencyThreshold == 40 \* consistencyThreshold default 0.4, in percent
TtlMs == 2000              \* now - p.timestamp < 2000
MinHistory == 3            \* recentPoses.length < 3

(***************************************************************************)
(* Fractions                                                               *)
(***************************************************************************)
RECURSIVE Gcd(_, _)
Gcd(a, b) == IF b = 0 THEN a ELSE Gcd(b, a % b)
\* n / d in lowest terms (n >= 0, d > 0)
Frac(n, d) == [num |-> n \div Gcd(n, d), den |-> d \div Gcd(n, d)]
Zero == Frac(0, 1)
FracGt(a, b) == a.num * b.den > b.num * a.den
FracEq(a, b) == a.num * b.den = b.num * a.den
FracGe(a, b) == a.num * b.den >= b.num * a.den

\* Signed fractions: n / d in lowest terms, d > 0, the sign in the numerator.
Rat(n, d) ==
    LET an == IF n < 0 THEN -n ELSE n
        ad == IF d < 0 THEN -d ELSE d
        sg == IF (n < 0) = (d < 0) THEN 1 ELSE -1
    IN  [num |-> sg * (an \div Gcd(an, ad)), den |-> ad \div Gcd(an, ad)]
RatAdd(a, b) == Rat(a.num * b.den + b.num * a.den, a.den * b.den)
RatSub(a, b) == Rat(a.num * b.den - b.num * a.den, a.den * b.den)
RatMul(a, b) == Rat(a.num * b.num, a.den * b.den)
RatDiv(a, b) == Rat(a.num * b.den, a.den * b.num)
RatAbs(a) == [num |-> IF a.num < 0 THEN -a.num ELSE a.num, den |-> a.den]
RatLt(a, b) == a.num * b.den < b.num * a.den
RatMax(a, b) == IF RatLt(a, b) THEN b ELSE a
RatMin(a, b) == IF RatLt(b, a) THEN b ELSE a
One == Rat(1, 1)

(***************************************************************************)
(* PoseDetectionSmoother                                                   *)
(***************************************************************************)
UnknownResult == [pose |-> "Unknown", confidence |-> Zero]

\* One history entry; seq is the number of the addPoseDetection call that
\* created it (bookkeeping of the model, the code stores the first three).
Entry(p, c, t, s) == [pose |-> p, confidence |-> c, timestamp |-> t, seq |-> s]

\* Mutant of AddPoseDetectionTo: <= for <, an entry exactly 2000 ms old stays.
AddPoseDetectionToInclusive(h, p, c, t, s) ==
    LET pushed == Append(h, Entry(p, c, t, s))
        capped == IF Len(pushed) > MaxHistoryLength THEN Tail(pushed) ELSE pushed
    IN  SelectSeq(capped, LAMBDA e : t - e.timestamp <= TtlMs)

\* Mutant of AddPoseDetectionTo: pop() for shift(), the newest entry is dropped.
AddPoseDetectionToPop(h, p, c, t, s) ==
    LET pushed == Append(h, Entry(p, c, t, s))
        capped == IF Len(pushed) > MaxHistoryLength
                  THEN SubSeq(pushed, 1, Len(pushed) - 1) ELSE pushed
    IN  SelectSeq(capped, LAMBDA e : t - e.timestamp < TtlMs)

\* addPoseDetection: push, shift when over the cap, then drop what is too old.
AddPoseDetectionTo(h, p, c, t, s) ==
    LET pushed == Append(h, Entry(p, c, t, s))
        capped == IF Len(pushed) > MaxHistoryLength THEN Tail(pushed) ELSE pushed
    IN  SelectSeq(capped, LAMBDA e : t - e.timestamp < TtlMs)

\* poseCounts[pose].count and .totalConfidence
PoseCount(h, p) == Cardinality({i \in 1..Len(h) : h[i].pose = p})

RECURSIVE TotalConfidence(_, _)
TotalConfidence(h, p) ==
    IF h = <<>> THEN 0
    ELSE (IF Head(h).pose = p THEN Head(h).confidence ELSE 0)
         + TotalConfidence(Tail(h), p)

\* The keys of poseCounts in the order "for (const pose in poseCounts)" visits
\* them: the order in which each label first appears in the history.
RECURSIVE PoseKeys(_, _)
PoseKeys(h, seen) ==
    IF h = <<>> THEN <<>>
    ELSE IF Head(h).pose \in seen THEN PoseKeys(Tail(h), seen)
         ELSE <<Head(h).pose>> \o PoseKeys(Tail(h), seen \cup {Head(h).pose})

\* Mutant of IsConsistent: a threshold of 0.7 for 0.4.
IsConsistentAtSeventy(h, p) == PoseCount(h, p) * 100 >= 70 * Len(h)

\* Mutant of IsConsistent: > for >=.
IsConsistentStrict(h, p) == PoseCount(h, p) * 100 > ConsistencyThreshold * Len(h)

\* consistency >= this.consistencyThreshold, consistency = count / length
IsConsistent(h, p) == PoseCount(h, p) * 100 >= ConsistencyThreshold * Len(h)

\* Mutant of PoseScore: the two weights exchanged.
PoseScoreSwapped(h, p) ==
    LET c == PoseCount(h, p)
        n == Len(h)
        T == TotalConfidence(h, p)
    IN  Frac(300 * c * c + 7 * T * n, 1000 * n * c)

\* score = consistency * 0.7 + avgConfidence * 0.3, as a fraction of 1:
\* 0.7 * c / n + 0.3 * T / (100 * c) = (700 c^2 + 3 T n) / (1000 n c)
PoseScore(h, p) ==
    LET c == PoseCount(h, p)
        n == Len(h)
        T == TotalConfidence(h, p)
    IN  Frac(700 * c * c + 3 * T * n, 1000 * n * c)

\* The loop over poseCounts: best is [pose, score], replaced on score > bestScore.
RECURSIVE BestOf(_, _, _)
BestOf(h, keys, best) ==
    IF keys = <<>> THEN best
    ELSE LET p == Head(keys)
             better == IsConsistent(h, p) /\ FracGt(PoseScore(h, p), best.score)
         IN  BestOf(h, Tail(keys),
                    IF better THEN [pose |-> p, score |-> PoseScore(h, p)] ELSE best)

\* Mutant of GetSmoothedPose: the score is returned for every label, also
\* for 'Unknown'.
GetSmoothedPoseKeepScore(h) ==
    IF Len(h) < MinHistory THEN UnknownResult
    ELSE LET best == BestOf(h, PoseKeys(h, {}), [pose |-> "Unknown", score |-> Zero])
         IN  [pose |-> best.pose, confidence |-> best.score]

\* Mutant of GetSmoothedPose: the minimum-sample gate is off by one.
GetSmoothedPoseGate2(h) ==
    IF Len(h) < MinHistory - 1 THEN UnknownResult
    ELSE LET best == BestOf(h, PoseKeys(h, {}), [pose |-> "Unknown", score |-> Zero])
         IN  [pose |-> best.pose,
              confidence |-> IF best.pose # "Unknown" THEN best.score ELSE Zero]

\* getSmoothedPose
GetSmoothedPose(h) ==
    IF Len(h) < MinHistory THEN UnknownResult
    ELSE LET best == BestOf(h, PoseKeys(h, {}), [pose |-> "Unknown", score |-> Zero])
         IN  [pose |-> best.pose,
              confidence |-> IF best.pose # "Unknown" THEN best.score ELSE Zero]

\* Mutant of ResetHistory: the newest entry survives.
ResetHistoryKeepLast(h) == IF h = <<>> THEN <<>> ELSE <<h[Len(h)]>>

\* reset
ResetHistory(h) == <<>>

\* getHistorySize
GetHistorySize(h) == Len(h)

(***************************************************************************)
(* classifyPose (utils/poseClassifier.ts)                                  *)
(*                                                                         *)
(* A frame is [len, score, match]: the number of keypoints, the score of   *)
(* each landmark the classifier reads, and the outcome of the geometric    *)
(* pattern chain of lines 55-302 on the keypoints' positions: the number   *)
(* of the first pattern whose condition holds, 0 when none does.  The      *)
(* gates of lines 7-53 read scores only and the patterns read positions    *)
(* only, so the two are independent inputs.                                *)
(***************************************************************************)
LeftShoulder == 11
RightShoulder == 12
LeftElbow == 13
RightElbow == 14
LeftWrist == 15
RightWrist == 16
LeftHip == 23
RightHip == 24
LeftKnee == 25
RightKnee == 26
LeftAnkle == 27
RightAnkle == 28

MinKeypoints == 17        \* kps.length < 17
MinHipScore == 40         \* hipScore < 0.4
LegVisibleScore == 50     \* (k.score ?? 0) > 0.5
MinVisibleLegs == 3       \* visibleLegKeypoints < 3
MinCriticalVisible == 3   \* DETECTION_THRESHOLDS.minCriticalVisible
MinCriticalScore == 50    \* DETECTION_THRESHOLDS.minCriticalScore
MinAvgConfidence == 50    \* DETECTION_THRESHOLDS.minAvgConfidence
AvgScoreFloor == 30       \* filter(s => s > 0.3)

CriticalBodyParts == <<LeftShoulder, RightShoulder, LeftHip, RightHip>>
LimbParts == <<LeftElbow, RightElbow, LeftWrist, RightWrist,
               LeftKnee, RightKnee, LeftAnkle, RightAnkle>>
LegKeypoints == <<LeftKnee, RightKnee, LeftAnkle, RightAnkle>>

\* Three of the patterns of the chain, in its order, with the line that returns.
Patterns ==
    << [pose |-> "Headstand", line |-> 79],
       [pose |-> "Tree Pose", line |-> 109],
       [pose |-> "Scorpion Pose", line |-> 301] >>

\* kp(idx).score ?? 0, with kp = kps[idx] ?? {x: 0, y: 0, score: 0}
KpScore(f, idx) == IF idx < f.len THEN f.score[idx] ELSE 0

Min2(a, b) == IF a < b THEN a ELSE b

\* parts.filter(k => score(k) > t).length
VisibleCount(f, parts, t) ==
    Cardinality({i \in DOMAIN parts : KpScore(f, parts[i]) > t})

\* The sum and the number of the scores of parts that are above floor.
RECURSIVE ScoreSumAbove(_, _, _)
ScoreSumAbove(f, parts, floor) ==
    IF parts = <<>> THEN 0
    ELSE (IF KpScore(f, Head(parts)) > floor THEN KpScore(f, Head(parts)) ELSE 0)
         + ScoreSumAbove(f, Tail(parts), floor)

\* Mutant of PassesCriticalGate: >= for > in the visibility count.
PassesCriticalGateGe(f) ==
    /\ Cardinality({i \in DOMAIN CriticalBodyParts :
                      KpScore(f, CriticalBodyParts[i]) >= MinCriticalScore})
         >= MinCriticalVisible
    /\ ScoreSumAbove(f, CriticalBodyParts, -1) >= MinCriticalScore * 4

\* not (criticalVisible < minCriticalVisible || avgCriticalScore < minCriticalScore)
PassesCriticalGate(f) ==
    /\ VisibleCount(f, CriticalBodyParts, MinCriticalScore) >= MinCriticalVisible
    /\ ScoreSumAbove(f, CriticalBodyParts, -1) >= MinCriticalScore * 4

\* not (hipScore < 0.4 || visibleLegKeypoints < 3)
PassesFullBodyGate(f) ==
    /\ Min2(KpScore(f, LeftHip), KpScore(f, RightHip)) >= MinHipScore
    /\ VisibleCount(f, LegKeypoints, LegVisibleScore) >= MinVisibleLegs

\* avgConfidence: the mean of the critical and limb scores above 0.3, 0 if none
AvgConfidence(f) ==
    LET parts == CriticalBodyParts \o LimbParts
        n == VisibleCount(f, parts, AvgScoreFloor)
    IN  IF n > 0 THEN Frac(ScoreSumAbove(f, parts, AvgScoreFloor), 100 * n) ELSE Zero

Classification(p, c, l) == [pose |-> p, confidence |-> c, line |-> l]

\* classifyPose, with the line of the return statement taken
ClassifyPoseAt(f) ==
    IF f.len < MinKeypoints THEN Classification("Unknown", Zero, 7)
    ELSE IF ~PassesFullBodyGate(f) THEN Classification("Unknown", Zero, 34)
    ELSE IF ~PassesCriticalGate(f) THEN Classification("Unknown", Zero, 46)
    ELSE IF FracGt(Frac(MinAvgConfidence, 100), AvgConfidence(f))
         THEN Classification("Unknown", Zero, 53)
    ELSE IF f.match > 0
         THEN Classification(Patterns[f.match].pose, AvgConfidence(f),
                             Patterns[f.match].line)
    ELSE Classification("Unknown Pose", AvgConfidence(f), 304)

\* classifyPose
ClassifyPose(f) ==
    [pose |-> ClassifyPoseAt(f).pose, confidence |-> ClassifyPoseAt(f).confidence]

(***************************************************************************)
(* classifyPose: the frames fed, and its specification                     *)
(***************************************************************************)
FrameLengths == {16, 17, 33}
CriticalScores == {0, 50, 60, 90}
LegScores == {40, 60}
ArmScores == {0, 40, 90}

MakeFrame(n, ls, rs, lh, rh, lk, rk, la, ra, arm, m) ==
    [len |-> n,
     score |-> (LeftShoulder :> ls) @@ (RightShoulder :> rs) @@
               (LeftHip :> lh) @@ (RightHip :> rh) @@
               (LeftKnee :> lk) @@ (RightKnee :> rk) @@
               (LeftAnkle :> la) @@ (RightAnkle :> ra) @@
               (LeftElbow :> arm) @@ (RightElbow :> arm) @@
               (LeftWrist :> arm) @@ (RightWrist :> arm),
     match |-> m]

Frames ==
    {MakeFrame(n, ls, rs, lh, rh, lk, rk, la, ra, arm, m) :
        n \in FrameLengths,
        ls \in CriticalScores, rs \in CriticalScores,
        lh \in CriticalScores, rh \in CriticalScores,
        lk \in LegScores, rk \in LegScores, la \in LegScores, ra \in LegScores,
        arm \in ArmScores, m \in 0..Len(Patterns)}

NoFrame == [len |-> 0]
NotClassified == Classification("", Zero, 0)

(***************************************************************************)
(* poseHelpers.ts: keypoints, angles, normalization, similarity            *)
(*                                                                         *)
(* A frame is [id, len, at]: the identity of the array, its length and     *)
(* its keypoints at 0..len-1.  Coordinates are exact fractions; a score    *)
(* is in percent, or Undefined when the keypoint has none.  Arithmetic is  *)
(* that of the reals: the rounding of doubles is not modelled.             *)
(***************************************************************************)
Undefined == -1           \* score?: number, absent
VisibilityFloor == 30     \* (p.score ?? 0) > 0.3

Keypoint(x, y, score) == [x |-> x, y |-> y, score |-> score]

\* keypoints[i] is not undefined
Exists(f, i) == i < f.len

\* kp.score ?? d
ScoreOr(kp, d) == IF kp.score = Undefined THEN d ELSE kp.score

\* ANGLE_PAIRS, in the order of Object.entries
ANGLE_PAIRS ==
    << [name |-> "leftElbow", at |-> <<11, 13, 15>>],
       [name |-> "rightElbow", at |-> <<12, 14, 16>>],
       [name |-> "leftShoulder", at |-> <<5, 11, 13>>],
       [name |-> "rightShoulder", at |-> <<6, 12, 14>>],
       [name |-> "leftKnee", at |-> <<23, 25, 27>>],
       [name |-> "rightKnee", at |-> <<24, 26, 28>>],
       [name |-> "leftHip", at |-> <<11, 23, 25>>],
       [name |-> "rightHip", at |-> <<12, 24, 26>>],
       [name |-> "leftTorso", at |-> <<11, 23, 24>>],
       [name |-> "rightTorso", at |-> <<12, 24, 23>>],
       [name |-> "torsoLeft", at |-> <<11, 12, 24>>],
       [name |-> "torsoRight", at |-> <<12, 11, 23>>] >>

\* CORE_KEYPOINTS
CORE_KEYPOINTS == <<5, 6, 7, 8, 9, 10, 11, 12, 13, 14, 23, 24, 25, 26, 27, 28>>

\* Math.atan2(dy, dx) in degrees, for the directions that are multiples of
\* 45 degrees; atan2(0, 0) is 0.
Atan2Deg(dy, dx) ==
    CASE dy.num = 0 /\ dx.num >= 0 -> 0
      [] dy.num = 0 /\ dx.num < 0 -> 180
      [] dx.num = 0 /\ dy.num > 0 -> 90
      [] dx.num = 0 /\ dy.num < 0 -> -90
      [] RatAbs(dx) = RatAbs(dy) /\ dx.num > 0 /\ dy.num > 0 -> 45
      [] RatAbs(dx) = RatAbs(dy) /\ dx.num < 0 /\ dy.num > 0 -> 135
      [] RatAbs(dx) = RatAbs(dy) /\ dx.num > 0 /\ dy.num < 0 -> -45
      [] RatAbs(dx) = RatAbs(dy) /\ dx.num < 0 /\ dy.num < 0 -> -135

\* calculateAngle(a, b, c) for three keypoints that exist, in degrees
CalculateAngle(a, b, c) ==
    LET angleBA == Atan2Deg(RatSub(a.y, b.y), RatSub(a.x, b.x))
        angleBC == Atan2Deg(RatSub(c.y, b.y), RatSub(c.x, b.x))
        d == IF angleBC - angleBA < 0 THEN angleBA - angleBC ELSE angleBC - angleBA
    IN  IF d > 180 THEN 360 - d ELSE d

\* Mutant of HasAngle: >= 0.3 for > 0.3.
HasAngleGe(f, pair) ==
    \A k \in 1..3 :
        /\ Exists(f, pair.at[k])
        /\ ScoreOr(f.at[pair.at[k]], 0) >= VisibilityFloor

\* p1 && p2 && p3 && (p1.score ?? 0) > 0.3 && ... of extractAngles
HasAngle(f, pair) ==
    \A k \in 1..3 :
        /\ Exists(f, pair.at[k])
        /\ ScoreOr(f.at[pair.at[k]], 0) > VisibilityFloor

\* extractAngles(keypoints): the angles record, a function on the names set
ExtractAngles(f) ==
    LET included == {i \in DOMAIN ANGLE_PAIRS : HasAngle(f, ANGLE_PAIRS[i])}
        pairOf(name) == CHOOSE i \in included : ANGLE_PAIRS[i].name = name
    IN  [name \in {ANGLE_PAIRS[i].name : i \in included} |->
            CalculateAngle(f.at[ANGLE_PAIRS[pairOf(name)].at[1]],
                           f.at[ANGLE_PAIRS[pairOf(name)].at[2]],
                           f.at[ANGLE_PAIRS[pairOf(name)].at[3]])]

\* The sum of the function g over the set S.
RECURSIVE SumOver(_, _)
SumOver(S, g) ==
    IF S = {} THEN 0
    ELSE LET i == CHOOSE j \in S : TRUE IN g[i] + SumOver(S \ {i}, g)

\* Mutant of CalculateAngleSimilarity: a joint missing from the detected
\* angles counts as a full difference.
CalculateAngleSimilarityPenalised(detectedAngles, referenceAngles) ==
    LET names == DOMAIN referenceAngles
        diff == [name \in names |->
            IF name \notin DOMAIN detectedAngles THEN 180
            ELSE IF detectedAngles[name] < referenceAngles[name]
                 THEN referenceAngles[name] - detectedAngles[name]
                 ELSE detectedAngles[name] - referenceAngles[name]]
    IN  IF names = {} THEN Zero
        ELSE RatMax(Zero, RatSub(One, Rat(SumOver(names, diff),
                                          180 * Cardinality(names))))

\* calculateAngleSimilarity(detectedAngles, referenceAngles)
CalculateAngleSimilarity(detectedAngles, referenceAngles) ==
    LET compared == DOMAIN referenceAngles \cap DOMAIN detectedAngles
        diff == [name \in compared |->
            IF detectedAngles[name] < referenceAngles[name]
            THEN referenceAngles[name] - detectedAngles[name]
            ELSE detectedAngles[name] - referenceAngles[name]]
        anglesCompared == Cardinality(compared)
    IN  IF anglesCompared = 0 THEN Zero
        ELSE RatMax(Zero, RatSub(One, Rat(SumOver(compared, diff),
                                          180 * anglesCompared)))

\* Math.sqrt on the fractions that are squares of fractions
Sqrt(r) ==
    Rat(CHOOSE k \in 0..r.num : k * k = r.num, CHOOSE k \in 1..r.den : k * k = r.den)

MinCoreUsed == 8          \* Math.min(8, CORE_KEYPOINTS.length / 2)
PositionWeight == 40      \* positionSimilarity * 0.4
AngleWeight == 60         \* angleSimilarity * 0.6

\* The core keypoints calculatePositionSimilarity does not skip.
CoreUsed(detectedKeypoints, referenceKeypoints) ==
    {k \in DOMAIN CORE_KEYPOINTS :
        /\ Exists(detectedKeypoints, CORE_KEYPOINTS[k])
        /\ Exists(referenceKeypoints, CORE_KEYPOINTS[k])
        /\ ~(ScoreOr(detectedKeypoints.at[CORE_KEYPOINTS[k]], 0) < VisibilityFloor)}

\* Math.sqrt(Math.pow(a.x - b.x, 2) + Math.pow(a.y - b.y, 2))
Distance(a, b) ==
    Sqrt(RatAdd(RatMul(RatSub(a.x, b.x), RatSub(a.x, b.x)),
                RatMul(RatSub(a.y, b.y), RatSub(a.y, b.y))))

\* The lower half of the indices in S, empty only when S has fewer than two.
LowerHalf(S) ==
    {j \in S : 2 * Cardinality({i \in S : i <= j}) <= Cardinality(S)}

\* The sum over the core keypoints in S of distance * weight, weight in
\* percent: totalDistance += distance * weight for each keypoint used. The
\* fractions are exact, so the terms are added pairwise, half by half.
RECURSIVE TotalDistance(_, _, _)
TotalDistance(S, detectedKeypoints, referenceKeypoints) ==
    IF S = {} THEN Zero
    ELSE IF Cardinality(S) = 1
    THEN LET k == CHOOSE j \in S : TRUE
             index == CORE_KEYPOINTS[k]
             weight == ScoreOr(detectedKeypoints.at[index], 50)
         IN  RatMul(Distance(detectedKeypoints.at[index],
                             referenceKeypoints.at[index]),
                    Rat(weight, 1))
    ELSE RatAdd(TotalDistance(LowerHalf(S), detectedKeypoints, referenceKeypoints),
                TotalDistance(S \ LowerHalf(S), detectedKeypoints, referenceKeypoints))

\* Mutant of CalculatePositionSimilarity: the plain mean distance.
CalculatePositionSimilarityUnweighted(detectedKeypoints, referenceKeypoints) ==
    LET used == CoreUsed(detectedKeypoints, referenceKeypoints)
        plain == [detectedKeypoints EXCEPT !.at =
                    [i \in DOMAIN detectedKeypoints.at |->
                       [detectedKeypoints.at[i] EXCEPT !.score = 100]]]
    IN  IF Cardinality(used) < MinCoreUsed THEN Zero
        ELSE RatMax(Zero, RatSub(One,
                 RatDiv(TotalDistance(used, plain, referenceKeypoints),
                        Rat(100 * Cardinality(used), 1))))

\* Mutant of CalculatePositionSimilarity: every core keypoint must be used.
CalculatePositionSimilarityAllCore(detectedKeypoints, referenceKeypoints) ==
    LET used == CoreUsed(detectedKeypoints, referenceKeypoints)
        weights == [k \in used |->
                      ScoreOr(detectedKeypoints.at[CORE_KEYPOINTS[k]], 50)]
    IN  IF Cardinality(used) < Len(CORE_KEYPOINTS) THEN Zero
        ELSE RatMax(Zero, RatSub(One,
                 RatDiv(TotalDistance(used, detectedKeypoints, referenceKeypoints),
                        Rat(SumOver(used, weights), 1))))

\* calculatePositionSimilarity(detectedKeypoints, referenceKeypoints)
CalculatePositionSimilarity(detectedKeypoints, referenceKeypoints) ==
    LET used == CoreUsed(detectedKeypoints, referenceKeypoints)
        weights == [k \in used |->
                      ScoreOr(detectedKeypoints.at[CORE_KEYPOINTS[k]], 50)]
        totalConfidence == SumOver(used, weights)
    IN  IF Cardinality(used) < MinCoreUsed THEN Zero
        ELSE RatMax(Zero, RatSub(One,
                 RatDiv(TotalDistance(used, detectedKeypoints, referenceKeypoints),
                        Rat(totalConfidence, 1))))

\* calculatePoseSimilarity(detectedKeypoints, referenceKeypoints)
CalculatePoseSimilarity(detectedKeypoints, referenceKeypoints) ==
    IF referenceKeypoints.len = 0 THEN Zero
    ELSE RatAdd(RatMul(CalculatePositionSimilarity(detectedKeypoints,
                                                   referenceKeypoints),
                       Rat(PositionWeight, 100)),
                RatMul(CalculateAngleSimilarity(ExtractAngles(detectedKeypoints),
                                                ExtractAngles(referenceKeypoints)),
                       Rat(AngleWeight, 100)))

TorsoScale == Rat(25, 10)   \* Math.max(shoulderWidth, hipWidth, torsoHeight) * 2.5
Half == Rat(1, 2)           \* ... / scale + 0.5

\* Math.min(...values) and Math.max(...values) of a non-empty set of fractions
MinOf(values) == CHOOSE v \in values : \A w \in values : ~RatLt(w, v)
MaxOf(values) == CHOOSE v \in values : \A w \in values : ~RatLt(v, w)

\* keypoints.map(kp => ({x: g.x(kp), y: g.y(kp), score: kp.score, ...})): a new array
MapKps(f, newId, offX, offY, divX, divY, plus) ==
    [id |-> newId, len |-> f.len,
     at |-> [i \in 0..(f.len - 1) |->
               Keypoint(RatAdd(RatDiv(RatSub(f.at[i].x, offX), divX), plus),
                        RatAdd(RatDiv(RatSub(f.at[i].y, offY), divY), plus),
                        f.at[i].score)]]

\* basicNormalization(keypoints), for a non-empty array
BasicNormalization(f, newId) ==
    LET xValues == {f.at[i].x : i \in 0..(f.len - 1)}
        yValues == {f.at[i].y : i \in 0..(f.len - 1)}
        rangeX == RatSub(MaxOf(xValues), MinOf(xValues))
        rangeY == RatSub(MaxOf(yValues), MinOf(yValues))
    IN  IF rangeX.num = 0 \/ rangeY.num = 0 THEN f
        ELSE MapKps(f, newId, MinOf(xValues), MinOf(yValues), rangeX, rangeY, Zero)

\* hasCorePoints of normalizeKeypoints
HasCorePoints(f) ==
    \A i \in {LeftShoulder, RightShoulder, LeftHip, RightHip} :
        Exists(f, i) /\ ScoreOr(f.at[i], 0) > VisibilityFloor

\* scale of normalizeKeypoints, when hasCorePoints
ScaleOf(f) ==
    LET ls == f.at[LeftShoulder]
        rs == f.at[RightShoulder]
        lh == f.at[LeftHip]
        rh == f.at[RightHip]
        shoulderWidth == RatAbs(RatSub(rs.x, ls.x))
        hipWidth == RatAbs(RatSub(rh.x, lh.x))
        torsoHeight == RatAbs(RatSub(RatMul(RatAdd(ls.y, rs.y), Half),
                                     RatMul(RatAdd(lh.y, rh.y), Half)))
    IN  RatMul(RatMax(RatMax(shoulderWidth, hipWidth), torsoHeight), TorsoScale)

\* normalizeKeypoints(keypoints); newId is the identity of the array it
\* creates, if it creates one
NormalizeKeypoints(f, newId) ==
    IF f.len = 0 THEN [id |-> newId, len |-> 0, at |-> <<>>]
    ELSE IF HasCorePoints(f) /\ ScaleOf(f).num > 0
    THEN LET ls == f.at[LeftShoulder]
             rs == f.at[RightShoulder]
             lh == f.at[LeftHip]
             rh == f.at[RightHip]
             centerX == RatDiv(RatAdd(RatAdd(ls.x, rs.x), RatAdd(lh.x, rh.x)),
                               Rat(4, 1))
             centerY == RatDiv(RatAdd(RatAdd(ls.y, rs.y), RatAdd(lh.y, rh.y)),
                               Rat(4, 1))
         IN  MapKps(f, newId, centerX, centerY, ScaleOf(f), ScaleOf(f), Half)
    ELSE BasicNormalization(f, newId)

\* No helper has been called.
NoCall == [fn |-> "", value |-> 0]
NoHelperCall ==
    /\ kps = [id |-> 0, len |-> 0]
    /\ refKps = [id |-> 0, len |-> 0]
    /\ out = NoCall

(***************************************************************************)
(* YogaPoseDetector component                                              *)
(*                                                                         *)
(* Handlers run to completion one at a time; React applies their state     *)
(* updates before the next handler runs, but re-runs the detection-loop    *)
(* effect (cleanup, then the effect with fresh closure values) as a step   *)
(* of its own, CommitEffects.  Until then the scheduled animation-frame    *)
(* callback is the one of the effect's last run and reads the state as of  *)
(* that run (loop.deps).                                                   *)
(***************************************************************************)
NullIndex == -1           \* selectedPoseIndex === null
MinPoseConfidence == 60   \* conf >= minConfidence at the default level, 0.6

\* The names that occur in posesData.json files, as the characters they are made of.
Chars ==
    ("Tree Pose" :> <<"T", "r", "e", "e", " ", "P", "o", "s", "e">>) @@
    ("Chair Pose" :> <<"C", "h", "a", "i", "r", " ", "P", "o", "s", "e">>) @@
    ("Unknown Pose" :> <<"U", "n", "k", "n", "o", "w", "n", " ", "P", "o", "s", "e">>) @@
    ("UNKNOWN" :> <<"U", "N", "K", "N", "O", "W", "N">>) @@
    ("My unKnOwn" :> <<"M", "y", " ", "u", "n", "K", "n", "O", "w", "n">>) @@
    ("unknow" :> <<"u", "n", "k", "n", "o", "w">>) @@
    ("Headstand" :> <<"H", "e", "a", "d", "s", "t", "a", "n", "d">>) @@
    ("Unknown" :> <<"U", "n", "k", "n", "o", "w", "n">>) @@
    ("No pose detected" :> <<"N", "o", " ", "p", "o", "s", "e", " ", "d", "e", "t", "e",
                             "c", "t", "e", "d">>)

\* String.prototype.toLowerCase on the characters above
LowerOf ==
    ("C" :> "c") @@ ("K" :> "k") @@ ("M" :> "m") @@ ("N" :> "n") @@ ("O" :> "o") @@
    ("P" :> "p") @@ ("T" :> "t") @@ ("U" :> "u") @@ ("W" :> "w") @@ ("H" :> "h")
ToLowerCase(str) ==
    [i \in DOMAIN str |-> IF str[i] \in DOMAIN LowerOf THEN LowerOf[str[i]] ELSE str[i]]

\* String.prototype.includes
Includes(str, sub) ==
    \E i \in 1..(Len(str) - Len(sub) + 1) : SubSeq(str, i, i + Len(sub) - 1) = sub

\* Mutant of NameHasUnknown: without toLowerCase.
NameHasUnknownCaseSensitive(name) ==
    Includes(Chars[name], <<"u", "n", "k", "n", "o", "w", "n">>)

\* pose.name.toLowerCase().includes('unknown')
NameHasUnknown(name) ==
    Includes(ToLowerCase(Chars[name]), <<"u", "n", "k", "n", "o", "w", "n">>)

\* The posesData.json files fetched.
PosesJson == <<"Tree Pose", "Unknown Pose", "Chair Pose">>
Catalogs ==
    {PosesJson,
     <<"UNKNOWN", "Tree Pose", "My unKnOwn", "Chair Pose">>,
     <<"unknow", "Unknown Pose">>}

\* Mutant of FilterPoses: the catalog is stored as fetched.
FilterPosesKeepAll(data) == data

\* data.filter(pose => !pose.name.toLowerCase().includes('unknown'))
FilterPoses(data) == SelectSeq(data, LAMBDA name : ~NameHasUnknown(name))

\* posesData.find(p => p.name === pose) || null, then posesData.indexOf(found)
FindPose(data, pose) ==
    IF \E i \in 1..Len(data) : data[i] = pose THEN pose ELSE "null"
IndexOfPose(data, pose) ==
    IF \E i \in 1..Len(data) : data[i] = pose
    THEN (CHOOSE i \in 1..Len(data) :
             data[i] = pose /\ \A j \in 1..(i - 1) : data[j] # pose) - 1
    ELSE NullIndex

\* str.split('(')[0].trim()
BeforeParen(str) ==
    IF \E i \in DOMAIN str : str[i] = "("
    THEN SubSeq(str, 1, (CHOOSE i \in DOMAIN str :
                            str[i] = "(" /\ \A j \in 1..(i - 1) : str[j] # "(") - 1)
    ELSE str
Trim(str) ==
    IF \A i \in DOMAIN str : str[i] = " " THEN <<>>
    ELSE LET first == CHOOSE i \in DOMAIN str :
                          str[i] # " " /\ \A j \in 1..(i - 1) : str[j] = " "
             last == CHOOSE i \in DOMAIN str :
                          str[i] # " " /\ \A j \in (i + 1)..Len(str) : str[j] = " "
         IN  SubSeq(str, first, last)

\* POSE_KEYWORDS
POSE_KEYWORDS ==
    << <<"m", "o", "u", "n", "t", "a", "i", "n">>, <<"t", "r", "e", "e">>,
       <<"w", "a", "r", "r", "i", "o", "r">>, <<"c", "h", "a", "i", "r">>,
       <<"p", "l", "a", "n", "k">>, <<"d", "o", "w", "n", "w", "a", "r", "d">>,
       <<"c", "h", "i", "l", "d">>, <<"b", "r", "i", "d", "g", "e">>,
       <<"c", "o", "b", "r", "a">>, <<"t", "r", "i", "a", "n", "g", "l", "e">>,
       <<"f", "o", "r", "w", "a", "r", "d">>, <<"u", "p", "w", "a", "r", "d">>,
       <<"d", "a", "n", "c", "e", "r">>, <<"e", "a", "g", "l", "e">>,
       <<"b", "o", "a", "t">>, <<"c", "a", "m", "e", "l">>, <<"c", "r", "o", "w">>,
       <<"p", "i", "g", "e", "o", "n">> >>

\* What detectedImageDivRef holds: nothing before the effect first writes it,
\* '/poses/unknown-pose.jpg', or the image of a catalog entry (named here by
\* the entry).
NoImage == ""
Placeholder == "/poses/unknown-pose.jpg"

\* The first element of a sequence that satisfies a test given as a function
\* of the index (Array.prototype.find); 0 when there is none.
FirstIndex(len, test) ==
    IF \E i \in 1..len : test[i]
    THEN CHOOSE i \in 1..len : test[i] /\ \A j \in 1..(i - 1) : ~test[j]
    ELSE 0

\* PosePanel's detected-image effect, after its guard on an empty catalog:
\* the image it writes for the label and the catalog.
DetectedImageOf(pose, data) ==
    IF pose # "" /\ pose \notin {"Unknown", "Unknown Pose", "No pose detected"}
    THEN LET detectedPoseName == ToLowerCase(Trim(BeforeParen(Chars[pose])))
             found == FirstIndex(Len(data),
                          [i \in 1..Len(data) |->
                              \/ Includes(ToLowerCase(Chars[data[i]]), detectedPoseName)
                              \/ Includes(detectedPoseName,
                                     ToLowerCase(Trim(BeforeParen(
                                         ToLowerCase(Chars[data[i]])))))])
             hit == [k \in 1..Len(POSE_KEYWORDS) |->
                        /\ Includes(detectedPoseName, POSE_KEYWORDS[k])
                        /\ \E i \in 1..Len(data) :
                              Includes(ToLowerCase(Chars[data[i]]), POSE_KEYWORDS[k])]
             keyword == FirstIndex(Len(POSE_KEYWORDS), hit)
         IN  IF found # 0 THEN data[found]
             ELSE IF keyword # 0
                  THEN data[FirstIndex(Len(data),
                           [i \in 1..Len(data) |->
                               Includes(ToLowerCase(Chars[data[i]]),
                                        POSE_KEYWORDS[keyword])])]
                  ELSE Placeholder
    ELSE Placeholder

\* Math.round(conf * 100)
RoundPercent(c) == (200 * c.num + c.den) \div (2 * c.den)

\* The detection-loop effect's dependency array, which is also all the state
\* its callback reads.
Deps ==
    [isCameraOn |-> isCameraOn, isModelLoaded |-> isModelLoaded,
     posesData |-> posesData, selectedPoseIndex |-> selectedPoseIndex,
     currentPose |-> currentPose, confidence |-> confidence,
     lastDetectedPose |-> lastDetectedPose]

NoCamera == [at |-> "idle", mode |-> "user"]

\* The component after its first render and effects: nothing loaded yet.
Mounted ==
    /\ isModelLoaded = FALSE
    /\ posesData = <<>>
    /\ posesLoad = "pending"
    /\ isCameraOn = FALSE
    /\ isCameraLoading = FALSE
    /\ error = ""
    /\ facingMode = "user"
    /\ currentPose = "Unknown"
    /\ confidence = 0
    /\ poseCount = 0
    /\ lastDetectedPose = ""
    /\ selectedPoseIndex = NullIndex
    /\ matchedPose = "null"
    /\ srcObject = "null"
    /\ camera = NoCamera
    /\ loop = [scheduled |-> FALSE,
               deps |-> [isCameraOn |-> FALSE, isModelLoaded |-> FALSE,
                         posesData |-> <<>>, selectedPoseIndex |-> NullIndex,
                         currentPose |-> "Unknown", confidence |-> 0,
                         lastDetectedPose |-> ""]]
    /\ framesSinceOn = 0
    /\ detectedImage = NoImage
    /\ mounted = TRUE
    /\ landmarkerRef = "null"
    /\ modelLoad = "pending"
    /\ run = ""
    /\ called = {}
    /\ contextStale = FALSE
    /\ detectedPoses = {}

\* The parameter 'cancelled' of loadPoseModel: the boolean the model-load
\* effect passed when it made the call, on mount.  The effect's cleanup
\* assigns the effect's own variable, not this copy.
CancelledArgument == FALSE

\* loadPoseModel, createFromOptions resolves: the landmarker is closed if
\* cancelled, installed otherwise (landmarkerRef.current, isModelLoaded).
LoadModelOk ==
    /\ modelLoad = "pending"
    /\ ~isModelLoaded
    /\ error # "Failed to load pose model."
    /\ IF CancelledArgument
       THEN /\ modelLoad' = "closed"
            /\ UNCHANGED <<landmarkerRef, isModelLoaded, error>>
       ELSE /\ modelLoad' = "installed"
            /\ landmarkerRef' = "landmarker"
            /\ isModelLoaded' = TRUE
            /\ error' = ""
    /\ called' = {}
    /\ UNCHANGED <<smootherVars, classifierVars, helperVars, mounted, run, detectedImage,
                   detectedPoses, dataVars,
                   isCameraOn, isCameraLoading, facingMode, srcObject, camera,
                   poseVars, loop, framesSinceOn, contextStale>>

\* loadPoseModel throws.
LoadModelFail ==
    /\ modelLoad = "pending"
    /\ ~isModelLoaded
    /\ error # "Failed to load pose model."
    /\ modelLoad' = "failed"
    /\ error' = "Failed to load pose model."
    /\ called' = {}
    /\ UNCHANGED <<smootherVars, classifierVars, helperVars, mounted, landmarkerRef, run,
                   detectedImage,
                   detectedPoses,
                   isModelLoaded, dataVars, isCameraOn, isCameraLoading, facingMode,
                   srcObject, camera, poseVars, loop, framesSinceOn, contextStale>>

\* loadPosesData: the response is not ok, is not JSON, or an entry has no name.
LoadPosesFail ==
    /\ posesLoad = "pending"
    /\ posesLoad' = "failed"
    /\ error' = IF error # "" THEN error ELSE "Failed to load poses data."
    /\ called' = {"fetch"}
    /\ UNCHANGED <<smootherVars, classifierVars, helperVars, lifeVars, run, detectedImage,
                   detectedPoses,
                   isModelLoaded, posesData, isCameraOn, isCameraLoading, facingMode,
                   srcObject, camera, poseVars, loop, framesSinceOn, contextStale>>

\* loadPosesData: the fetch succeeds with the array data.
LoadPosesOk(data) ==
    /\ posesLoad = "pending"
    /\ posesLoad' = "done"
    /\ posesData' = FilterPoses(data)
    /\ called' = {"fetch"}
    /\ UNCHANGED <<smootherVars, classifierVars, helperVars, lifeVars, run, detectedImage,
                   detectedPoses,
                   isModelLoaded, cameraVars, poseVars, loop, framesSinceOn,
                   contextStale>>

\* startCamera up to its await of getUserMedia
BeginStartCamera(mode) ==
    /\ isCameraLoading' = TRUE
    /\ error' = ""
    /\ camera' = [at |-> "getUserMedia", mode |-> mode]

\* The Start Camera button.
StartCamera ==
    /\ mounted
    /\ isModelLoaded /\ ~isCameraOn /\ ~isCameraLoading
    /\ camera.at = "idle"
    /\ BeginStartCamera(facingMode)
    /\ called' = {}
    /\ UNCHANGED <<smootherVars, classifierVars, helperVars, lifeVars, run, detectedImage,
                   detectedPoses,
                   isModelLoaded, dataVars, isCameraOn, facingMode, srcObject,
                   poseVars, loop, framesSinceOn, contextStale>>

\* getUserMedia resolves: the stream is attached and onloadedmetadata is
\* awaited; with videoRef.current null startCamera returns at once.
GetUserMediaOk ==
    /\ camera.at = "getUserMedia"
    /\ IF mounted
       THEN /\ srcObject' = "live"
            /\ camera' = [camera EXCEPT !.at = "loadedmetadata"]
       ELSE /\ camera' = NoCamera
            /\ UNCHANGED srcObject
    /\ called' = {}
    /\ UNCHANGED <<smootherVars, classifierVars, helperVars, lifeVars, run, detectedImage,
                   detectedPoses,
                   isModelLoaded, dataVars, isCameraOn, isCameraLoading, error,
                   facingMode, poseVars, loop, framesSinceOn, contextStale>>

\* getUserMedia rejects.
GetUserMediaFail ==
    /\ camera.at = "getUserMedia"
    /\ error' = "Failed to access camera (permission denied or no camera)."
    /\ isCameraLoading' = FALSE
    /\ camera' = NoCamera
    /\ called' = {}
    /\ UNCHANGED <<smootherVars, classifierVars, helperVars, lifeVars, run, detectedImage,
                   detectedPoses,
                   isModelLoaded, dataVars, isCameraOn, facingMode, srcObject,
                   poseVars, loop, framesSinceOn, contextStale>>

\* onloadedmetadata: play() resolves.
PlayOk ==
    /\ camera.at = "loadedmetadata"
    /\ isCameraOn' = TRUE
    /\ isCameraLoading' = FALSE
    /\ facingMode' = camera.mode
    /\ camera' = NoCamera
    /\ framesSinceOn' = 0
    /\ called' = {}
    /\ UNCHANGED <<smootherVars, classifierVars, helperVars, lifeVars, run, detectedImage,
                   detectedPoses,
                   isModelLoaded, dataVars, error, srcObject, poseVars, loop,
                   contextStale>>

\* onloadedmetadata: play() rejects (videoRef.current?.play() is not called
\* once videoRef.current is null).
PlayFail ==
    /\ mounted
    /\ camera.at = "loadedmetadata"
    /\ error' = "Failed to play camera stream."
    /\ isCameraLoading' = FALSE
    /\ camera' = NoCamera
    /\ called' = {}
    /\ UNCHANGED <<smootherVars, classifierVars, helperVars, lifeVars, run, detectedImage,
                   detectedPoses,
                   isModelLoaded, dataVars, isCameraOn, facingMode, srcObject,
                   poseVars, loop, framesSinceOn, contextStale>>

\* stopCamera (the Stop Camera button is enabled while isCameraOn)
StopCamera ==
    /\ mounted
    /\ isCameraOn
    /\ run' = ""
    /\ srcObject' = "null"
    /\ isCameraOn' = FALSE
    /\ currentPose' = "Unknown"
    /\ confidence' = 0
    /\ lastDetectedPose' = ""
    /\ framesSinceOn' = 0
    /\ called' = {}
    /\ contextStale' = TRUE
    /\ UNCHANGED <<smootherVars, classifierVars, helperVars, lifeVars, detectedImage,
                   detectedPoses,
                   isModelLoaded, dataVars, isCameraLoading, error, facingMode, camera,
                   poseCount, selectedPoseIndex, matchedPose, loop>>

\* switchCamera: the tracks are stopped and startCamera(newMode) begins.
\* One startCamera call is in flight at a time.
SwitchCamera ==
    /\ mounted
    /\ isCameraOn
    /\ camera.at = "idle"
    /\ run' = ""
    /\ srcObject' = IF srcObject = "null" THEN "null" ELSE "stopped"
    /\ BeginStartCamera(IF facingMode = "user" THEN "environment" ELSE "user")
    /\ called' = {}
    /\ contextStale' = TRUE
    /\ UNCHANGED <<smootherVars, classifierVars, helperVars, lifeVars, detectedImage,
                   detectedPoses,
                   isModelLoaded, dataVars, isCameraOn, facingMode, poseVars, loop,
                   framesSinceOn>>

\* onSelectPose(idx): a click on entry idx of the pose list
SelectPose(idx) ==
    /\ mounted
    /\ idx \in 0..(Len(posesData) - 1)
    /\ selectedPoseIndex' = idx
    /\ called' = {}
    /\ contextStale' = (contextStale \/ idx # selectedPoseIndex)
    /\ UNCHANGED <<smootherVars, classifierVars, helperVars, lifeVars, run, detectedImage,
                   detectedPoses,
                   isModelLoaded, dataVars, cameraVars, currentPose, confidence,
                   poseCount, lastDetectedPose, matchedPose, loop, framesSinceOn>>

\* React re-runs the detection-loop effect after a render that changed a
\* dependency: the cleanup cancels the scheduled callback, the effect
\* schedules a new one if the camera is on and the landmarker is loaded.
CommitEffects ==
    /\ mounted
    /\ loop.deps # Deps
    /\ loop' = [scheduled |-> (isCameraOn /\ isModelLoaded), deps |-> Deps]
    /\ detectedImage' =
         IF Len(posesData) = 0 THEN detectedImage
         ELSE DetectedImageOf(currentPose, posesData)
    /\ called' = {}
    /\ UNCHANGED <<smootherVars, classifierVars, helperVars, lifeVars, run,
                   detectedPoses,
                   isModelLoaded, dataVars, cameraVars, poseVars, framesSinceOn,
                   contextStale>>

\* Mutant of VideoHasFrame: the loop callback does not look at the video.
VideoHasFrameAlways == TRUE

\* The loop callback goes on to detectForVideo: video.readyState is at least
\* 2 and currentTime moved on, which takes a stream with live tracks
\* (readyState is 0 once srcObject is null).
VideoHasFrame == srcObject = "live"

\* The frames the landmarker delivers to the loop.
TreeFrame == MakeFrame(33, 90, 90, 90, 90, 60, 60, 60, 60, 90, 2)
FaintTreeFrame == MakeFrame(33, 60, 60, 60, 60, 60, 60, 60, 40, 40, 2)
HeadstandFrame == MakeFrame(33, 90, 90, 90, 90, 60, 60, 60, 60, 90, 1)
UnmatchedFrame == MakeFrame(33, 90, 90, 90, 90, 60, 60, 60, 60, 90, 0)
HiddenFrame == MakeFrame(33, 0, 50, 90, 90, 60, 60, 60, 60, 90, 2)
LoopFrames == {TreeFrame, FaintTreeFrame, HeadstandFrame, UnmatchedFrame, HiddenFrame}

\* classifyPose(keypoints) on each of them
LoopResults == [f \in LoopFrames |-> ClassifyPose(f)]

NotDetectedLabels == {"Unknown Pose", "Unknown", "No pose detected"}

\* One run of the loop callback on a new video frame with landmarks.
ProcessFrame(f) ==
    LET c == loop.deps
        r == LoopResults[f]
        foundPose == FindPose(c.posesData, r.pose)
        index == IndexOfPose(c.posesData, r.pose)
        isPoseDetected ==
            /\ r.pose \notin NotDetectedLabels
            /\ FracGe(r.confidence, Frac(MinPoseConfidence, 100))
        counts == isPoseDetected /\ r.pose # c.lastDetectedPose
    IN  /\ mounted
        /\ loop.scheduled
        /\ VideoHasFrame
        /\ counts => poseCount < MaxPoseCount
        /\ run' = IF isPoseDetected THEN r.pose ELSE ""
        /\ currentPose' = r.pose
        /\ confidence' = RoundPercent(r.confidence)
        /\ matchedPose' = foundPose
        /\ selectedPoseIndex' =
             IF foundPose # "null"
             THEN (IF index # c.selectedPoseIndex THEN index ELSE selectedPoseIndex)
             ELSE NullIndex
        /\ lastDetectedPose' =
             IF counts THEN r.pose
             ELSE IF ~isPoseDetected THEN "" ELSE lastDetectedPose
        /\ poseCount' = IF counts THEN poseCount + 1 ELSE poseCount
        /\ detectedPoses' =
             IF isPoseDetected THEN detectedPoses \cup {r.pose} ELSE detectedPoses
        /\ called' = {"detectForVideo", "classifyPose", "drawSkeleton"}
                        \cup (IF counts THEN {"playSuccessSound"} ELSE {})
        /\ framesSinceOn' = IF framesSinceOn < 3 THEN framesSinceOn + 1 ELSE 3
        /\ UNCHANGED <<smootherVars, classifierVars, helperVars, lifeVars, detectedImage,
                   isModelLoaded,
                       dataVars, cameraVars, loop, contextStale>>

\* One run of the loop callback on a new video frame without landmarks.
ProcessEmptyFrame ==
    /\ mounted
    /\ loop.scheduled
    /\ VideoHasFrame
    /\ run' = ""
    /\ currentPose' = "No pose detected"
    /\ confidence' = 0
    /\ matchedPose' = "null"
    /\ lastDetectedPose' = ""
    /\ called' = {"detectForVideo", "drawSkeleton"}
    /\ framesSinceOn' = IF framesSinceOn < 3 THEN framesSinceOn + 1 ELSE 3
    /\ UNCHANGED <<smootherVars, classifierVars, helperVars, lifeVars, detectedImage,
                   detectedPoses,
                   isModelLoaded, dataVars, cameraVars, poseCount, selectedPoseIndex,
                   loop, contextStale>>

\* The component is unmounted: React runs the cleanups of its effects (the
\* model-load effect's cancelled = true, the loop's cancelAnimationFrame)
\* and sets videoRef.current to null.  The stream is not stopped.
Unmount ==
    /\ mounted
    /\ mounted' = FALSE
    /\ loop' = [loop EXCEPT !.scheduled = FALSE]
    /\ called' = {}
    /\ UNCHANGED <<smootherVars, classifierVars, helperVars, landmarkerRef, modelLoad,
                   run, detectedImage, detectedPoses, isModelLoaded, dataVars,
                   cameraVars, poseVars, framesSinceOn, contextStale>>

(***************************************************************************)
(* src/src/app/YogaPoseDetector.tsx: the detection loop of the component   *)
(* that page.tsx renders.  Its handlers are those above, line for line;    *)
(* its loop has no catalog lookup and its effect depends on isCameraOn,    *)
(* isModelLoaded, currentPose and confidence only.                         *)
(***************************************************************************)
\* classifyPose of YogaPoseDetector.tsx: the gates on the critical scores and
\* on the average confidence are those of utils/poseClassifier.ts, there is
\* no gate on hips and legs.
ClassifyPoseMonolith(f) ==
    IF f.len < MinKeypoints THEN [pose |-> "Unknown", confidence |-> Zero]
    ELSE IF ~PassesCriticalGate(f) THEN [pose |-> "Unknown", confidence |-> Zero]
    ELSE IF FracGt(Frac(MinAvgConfidence, 100), AvgConfidence(f))
         THEN [pose |-> "Unknown", confidence |-> Zero]
    ELSE IF f.match > 0
         THEN [pose |-> Patterns[f.match].pose, confidence |-> AvgConfidence(f)]
    ELSE [pose |-> "Unknown Pose", confidence |-> AvgConfidence(f)]

\* Frames in the Tree Pose arrangement whose average score is 716/1200
\* (0.5967, shown as 60%) and 725/1200 (0.6042, shown as 60%).
AlmostTreeFrame == MakeFrame(33, 60, 60, 60, 60, 60, 60, 60, 56, 60, 2)
BarelyTreeFrame == MakeFrame(33, 60, 60, 60, 60, 60, 60, 60, 65, 60, 2)
MonolithFrames == {AlmostTreeFrame, BarelyTreeFrame, HeadstandFrame, UnmatchedFrame}
MonolithResults == [f \in MonolithFrames |-> ClassifyPoseMonolith(f)]

\* The dependency array of the loop effect of YogaPoseDetector.tsx.
MonolithDepsOf(d) ==
    [isCameraOn |-> d.isCameraOn, isModelLoaded |-> d.isModelLoaded,
     currentPose |-> d.currentPose, confidence |-> d.confidence]

\* A render changed a dependency of the loop effect and React has not yet
\* run the effect again.
MonolithEffectsPending == MonolithDepsOf(loop.deps) # MonolithDepsOf(Deps)

\* React re-runs the loop effect: the new callback closes over the state of
\* this render, lastDetectedPose included.
CommitEffectsMonolith ==
    /\ mounted
    /\ MonolithEffectsPending
    /\ loop' = [scheduled |-> (isCameraOn /\ isModelLoaded), deps |-> Deps]
    /\ detectedImage' =
         IF Len(posesData) = 0 THEN detectedImage
         ELSE DetectedImageOf(currentPose, posesData)
    /\ called' = {}
    /\ UNCHANGED <<smootherVars, classifierVars, helperVars, lifeVars, run,
                   detectedPoses, isModelLoaded, dataVars, cameraVars, poseVars,
                   framesSinceOn, contextStale>>

\* One run of the loop callback of YogaPoseDetector.tsx on a new video frame
\* with landmarks.  The render of the previous frame and its effects are
\* complete when the next animation frame begins.
ProcessFrameMonolith(f) ==
    LET c == loop.deps
        r == MonolithResults[f]
        isPoseDetected ==
            /\ r.pose \notin NotDetectedLabels
            /\ FracGe(r.confidence, Frac(MinPoseConfidence, 100))
        counts == isPoseDetected /\ r.pose # c.lastDetectedPose
    IN  /\ mounted
        /\ loop.scheduled
        /\ ~MonolithEffectsPending
        /\ VideoHasFrame
        /\ counts => poseCount < MaxPoseCount
        /\ run' = IF isPoseDetected THEN r.pose ELSE ""
        /\ currentPose' = r.pose
        /\ confidence' = RoundPercent(r.confidence)
        /\ lastDetectedPose' =
             IF counts THEN r.pose
             ELSE IF ~isPoseDetected THEN "" ELSE lastDetectedPose
        /\ poseCount' = IF counts THEN poseCount + 1 ELSE poseCount
        /\ detectedPoses' =
             IF isPoseDetected THEN detectedPoses \cup {r.pose} ELSE detectedPoses
        /\ called' = {"detectForVideo", "classifyPose", "drawSkeleton"}
                        \cup (IF counts THEN {"playSuccessSound"} ELSE {})
        /\ framesSinceOn' = IF framesSinceOn < 3 THEN framesSinceOn + 1 ELSE 3
        /\ UNCHANGED <<smootherVars, classifierVars, helperVars, lifeVars, detectedImage,
                       isModelLoaded, dataVars, cameraVars, selectedPoseIndex,
                       matchedPose, loop, contextStale>>

\* The same on a video frame without landmarks.
ProcessEmptyFrameMonolith ==
    /\ mounted
    /\ loop.scheduled
    /\ ~MonolithEffectsPending
    /\ VideoHasFrame
    /\ run' = ""
    /\ currentPose' = "No pose detected"
    /\ confidence' = 0
    /\ lastDetectedPose' = ""
    /\ called' = {"detectForVideo", "drawSkeleton"}
    /\ framesSinceOn' = IF framesSinceOn < 3 THEN framesSinceOn + 1 ELSE 3
    /\ UNCHANGED <<smootherVars, classifierVars, helperVars, lifeVars, detectedImage,
                   detectedPoses, isModelLoaded, dataVars, cameraVars, poseCount,
                   selectedPoseIndex, matchedPose, loop, contextStale>>

NextMonolith ==
    \/ LoadModelOk
    \/ StartCamera
    \/ GetUserMediaOk
    \/ PlayOk
    \/ StopCamera
    \/ CommitEffectsMonolith
    \/ \E f \in MonolithFrames : ProcessFrameMonolith(f)
    \/ ProcessEmptyFrameMonolith

\* The handlers that start, stop and end the component, without its loop.
NextLifecycle ==
    \/ LoadModelOk
    \/ LoadModelFail
    \/ \E data \in Catalogs : LoadPosesOk(data)
    \/ LoadPosesFail
    \/ StartCamera
    \/ GetUserMediaOk
    \/ GetUserMediaFail
    \/ PlayOk
    \/ PlayFail
    \/ StopCamera
    \/ SwitchCamera
    \/ Unmount

NextApp ==
    \/ LoadModelOk
    \/ LoadModelFail
    \/ \E data \in Catalogs : LoadPosesOk(data)
    \/ LoadPosesFail
    \/ StartCamera
    \/ GetUserMediaOk
    \/ GetUserMediaFail
    \/ PlayOk
    \/ PlayFail
    \/ StopCamera
    \/ SwitchCamera
    \/ \E idx \in 0..1 : SelectPose(idx)
    \/ CommitEffects
    \/ \E f \in LoopFrames : ProcessFrame(f)
    \/ ProcessEmptyFrame

(***************************************************************************)
(* Smoother: state machine                                                 *)
(*                                                                         *)
(* Three specifications over the same operations, differing in the         *)
(* detections fed and in the bound on the number of calls:                 *)
(*   Spec       time passes; two labels, two confidences                   *)
(*   SpecScore  no time passes; three labels, two confidences              *)
(*   SpecCap    time passes; one detection value, enough calls to overflow *)
(*              the cap of 10                                              *)
(***************************************************************************)
Poses == {"Tree Pose", "Chair Pose", "Unknown"}
TimedPoses == {"Tree Pose", "Unknown"}
CapPoses == {"Tree Pose"}
Confidences == {50, 100}
CapConfidences == {100}
\* Clock advances, in ms: ages of 1, 1999, 2000 (= 1 + 1999) and more arise.
TickSteps == {1, 1999}

\* No getSmoothedPose() value is at hand (another call came last).
NoResult == [pose |-> "", confidence |-> Zero]

\* new PoseDetectionSmoother()
SmootherNew ==
    /\ recentPoses = <<>>
    /\ now = 0
    /\ adds = 0
    /\ resetAt = -1
    /\ ticks = 0
    /\ result = NoResult
    /\ outliers = 0

SmootherInit ==
    /\ SmootherNew
    /\ frame = NoFrame
    /\ classified = NotClassified
    /\ Mounted
    /\ NoHelperCall

AddPoseDetection(poses, confs, maxAdds) ==
    /\ adds < maxAdds
    /\ \E p \in poses, c \in confs :
         recentPoses' = AddPoseDetectionTo(recentPoses, p, c, now, adds)
    /\ adds' = adds + 1
    /\ result' = NoResult
    /\ UNCHANGED <<now, resetAt, ticks, outliers>>
    /\ UNCHANGED <<classifierVars, appVars, helperVars>>

SmoothedPose ==
    /\ result' = GetSmoothedPose(recentPoses)
    /\ UNCHANGED <<recentPoses, now, adds, resetAt, ticks, outliers>>
    /\ UNCHANGED <<classifierVars, appVars, helperVars>>

Reset ==
    /\ recentPoses' = ResetHistory(recentPoses)
    /\ resetAt' = adds
    /\ result' = NoResult
    /\ UNCHANGED <<now, adds, ticks, outliers>>
    /\ UNCHANGED <<classifierVars, appVars, helperVars>>

\* Time passes between calls.
Tick ==
    /\ ticks < MaxTicks
    /\ \E d \in TickSteps : now' = now + d
    /\ ticks' = ticks + 1
    /\ result' = NoResult
    /\ UNCHANGED <<recentPoses, adds, resetAt, outliers>>
    /\ UNCHANGED <<classifierVars, appVars, helperVars>>

Next ==
    \/ AddPoseDetection(TimedPoses, Confidences, MaxTimedAdds)
    \/ SmoothedPose
    \/ Reset
    \/ Tick

Spec == SmootherInit /\ [][Next]_vars

NextScore ==
    \/ AddPoseDetection(Poses, Confidences, MaxAdds)
    \/ SmoothedPose
    \/ Reset

SpecScore == SmootherInit /\ [][NextScore]_vars

NextCap ==
    \/ AddPoseDetection(CapPoses, CapConfidences, MaxCapAdds)
    \/ SmoothedPose
    \/ Reset
    \/ Tick

SpecCap == SmootherInit /\ [][NextCap]_vars

\* A stream of agreeing detections and a few that disagree with them.
OutlierPoses == {"Chair Pose", "Unknown"}
OutlierConfidences == {0, 100}

\* addPoseDetection with a detection that disagrees with the stream.
AddOutlier ==
    /\ adds < MaxOutlierAdds
    /\ outliers < MaxOutliers
    /\ \E p \in OutlierPoses, c \in OutlierConfidences :
         recentPoses' = AddPoseDetectionTo(recentPoses, p, c, now, adds)
    /\ adds' = adds + 1
    /\ outliers' = outliers + 1
    /\ result' = NoResult
    /\ UNCHANGED <<now, resetAt, ticks>>
    /\ UNCHANGED <<classifierVars, appVars, helperVars>>

\* Date.now() moves on once, to just inside or just outside the 2000 ms
\* window of the detections made so far.
AgeHistory ==
    /\ now = 0
    /\ \E d \in {TtlMs - 1, TtlMs} : now' = now + d
    /\ result' = NoResult
    /\ UNCHANGED <<recentPoses, adds, resetAt, ticks, outliers>>
    /\ UNCHANGED <<classifierVars, appVars, helperVars>>

NextOutlier ==
    \/ AddPoseDetection(CapPoses, CapConfidences, MaxOutlierAdds)
    \/ AddOutlier
    \/ SmoothedPose
    \/ AgeHistory

SpecOutlier == SmootherInit /\ [][NextOutlier]_vars

\* Detections whose confidence is at either end of [0,1].
RangeConfidences == {0, 100}

NextRange ==
    \/ AddPoseDetection(Poses, RangeConfidences, MaxAdds)
    \/ SmoothedPose
    \/ Reset

SpecRange == SmootherInit /\ [][NextRange]_vars

\* classifyPose applied once to a frame drawn from Frames.
ClassifyInit ==
    /\ SmootherNew
    /\ frame \in Frames
    /\ classified = NotClassified
    /\ Mounted
    /\ NoHelperCall

Classify ==
    /\ classified = NotClassified
    /\ classified' = ClassifyPoseAt(frame)
    /\ UNCHANGED frame
    /\ UNCHANGED <<smootherVars, appVars, helperVars>>

NextClassify == Classify

SpecClassify == ClassifyInit /\ [][NextClassify]_vars

SpecApp == SmootherInit /\ [][NextApp]_vars

SpecMonolith == SmootherInit /\ [][NextMonolith]_vars

SpecLifecycle == SmootherInit /\ [][NextLifecycle]_vars

\* Every promise settles: getUserMedia resolves or rejects, and once the
\* stream is attached loadedmetadata fires and play() resolves or rejects.
SpecLifecycleFair ==
    /\ SpecLifecycle
    /\ WF_vars(GetUserMediaOk \/ GetUserMediaFail)
    /\ WF_vars(PlayOk \/ PlayFail)

(***************************************************************************)
(* poseHelpers.ts: the calls made, one specification per function          *)
(***************************************************************************)
\* Keypoint positions: the corners of the unit square, so that every vector
\* between two keypoints points in a multiple of 45 degrees.
\* Layout 3 is layout 1 with landmarks 8..15 and 24..31 moved by 1 along x,
\* layout 4 is layout 1 twice as wide, in layout 5 all keypoints share one x,
\* in layout 6 they coincide, layout 7 is layout 4 with the nose far away.
Layout(k, i) ==
    CASE k = 1 -> [x |-> Rat(i % 2, 1), y |-> Rat((i \div 2) % 2, 1)]
      [] k = 2 -> [x |-> Rat((i \div 4) % 2, 1), y |-> Rat(i % 2, 1)]
      [] k = 3 -> [x |-> Rat((i + (i \div 8)) % 2, 1), y |-> Rat((i \div 2) % 2, 1)]
      [] k = 4 -> [x |-> Rat(2 * (i % 2), 1), y |-> Rat((i \div 2) % 2, 1)]
      [] k = 5 -> [x |-> Rat(0, 1), y |-> Rat(i % 2, 1)]
      [] k = 6 -> [x |-> Rat(1, 1), y |-> Rat(1, 1)]
      [] k = 7 -> IF i = 0 THEN [x |-> Rat(10, 1), y |-> Rat(5, 1)]
                  ELSE [x |-> Rat(2 * (i % 2), 1), y |-> Rat((i \div 2) % 2, 1)]

\* The frame with identity id and n keypoints in layout k, scored by scores
\* where it says and 1.0 elsewhere.
MakeKps(id, n, k, scores) ==
    [id |-> id, len |-> n,
     at |-> [i \in 0..(n - 1) |->
               Keypoint(Layout(k, i).x, Layout(k, i).y,
                        IF i \in DOMAIN scores THEN scores[i] ELSE 100)]]

NoKps == [id |-> 0, len |-> 0]

AngleLengths == {12, 14, 16, 33}
AngleScores == {Undefined, 30, 31, 100}
AngleFrames ==
    {MakeKps(1, n, k, (5 :> s5) @@ (11 :> s11) @@ (13 :> s13) @@ (15 :> s15)) :
        n \in AngleLengths, k \in 1..2,
        s5 \in AngleScores, s11 \in AngleScores,
        s13 \in AngleScores, s15 \in AngleScores}

\* The other variables while a helper function is called.
HelpersOnly ==
    /\ SmootherNew
    /\ frame = NoFrame
    /\ classified = NotClassified
    /\ Mounted

ExtractAnglesInit ==
    /\ HelpersOnly
    /\ kps \in AngleFrames
    /\ refKps = NoKps
    /\ out = NoCall

\* extractAngles(kps)
ExtractAnglesCall ==
    /\ out = NoCall
    /\ out' = [fn |-> "extractAngles", value |-> ExtractAngles(kps)]
    /\ UNCHANGED <<smootherVars, classifierVars, appVars, kps, refKps>>

SpecExtractAngles == ExtractAnglesInit /\ [][ExtractAnglesCall]_vars

\* The angle records passed to calculateAngleSimilarity: each of three
\* joints absent or with one of three values.
AngleNames == {"leftElbow", "rightElbow", "leftKnee"}
AngleValues == {0, 90, 540}
AngleRecords ==
    UNION {[names -> AngleValues] : names \in SUBSET AngleNames}

AngleSimilarityInit ==
    /\ HelpersOnly
    /\ kps \in AngleRecords
    /\ refKps \in AngleRecords
    /\ out = NoCall

\* calculateAngleSimilarity(kps, refKps)
AngleSimilarityCall ==
    /\ out = NoCall
    /\ out' = [fn |-> "calculateAngleSimilarity",
               value |-> CalculateAngleSimilarity(kps, refKps)]
    /\ UNCHANGED <<smootherVars, classifierVars, appVars, kps, refKps>>

SpecAngleSimilarity == AngleSimilarityInit /\ [][AngleSimilarityCall]_vars

\* The frames passed to calculatePoseSimilarity: with 12 keypoints 7 core
\* landmarks exist, with 13 keypoints 8.
SimilarityLengths == {12, 13, 33}
SimilarityScores == {Undefined, 29, 30, 100}
FaceAndElbows == {6, 7, 8, 9, 10, 13, 14}
DetectedFrames ==
    {MakeKps(1, n, 1, (5 :> s5) @@ [i \in FaceAndElbows |-> sf] @@ (27 :> s27)) :
        n \in SimilarityLengths,
        s5 \in SimilarityScores, sf \in SimilarityScores, s27 \in SimilarityScores}
ReferenceFrames ==
    {NoKps} \cup {MakeKps(2, n, k, <<>>) : n \in SimilarityLengths, k \in {1, 3}}

PoseSimilarityInit ==
    /\ HelpersOnly
    /\ kps \in DetectedFrames
    /\ refKps \in ReferenceFrames
    /\ out = NoCall

\* calculatePoseSimilarity(kps, refKps), with the two similarities it combines
PoseSimilarityCall ==
    /\ out = NoCall
    /\ out' = [fn |-> "calculatePoseSimilarity",
               value |-> [positionSimilarity |->
                              CalculatePositionSimilarity(kps, refKps),
                          angleSimilarity |->
                              CalculateAngleSimilarity(ExtractAngles(kps),
                                                       ExtractAngles(refKps)),
                          combinedScore |-> CalculatePoseSimilarity(kps, refKps)]]
    /\ UNCHANGED <<smootherVars, classifierVars, appVars, kps, refKps>>

SpecPoseSimilarity == PoseSimilarityInit /\ [][PoseSimilarityCall]_vars

\* The frames passed to normalizeKeypoints, and the identity of the array
\* it creates.
NormalizeLengths == {0, 1, 12, 33}
NoseScores == {10, 100}
NormalizeFrames ==
    {MakeKps(1, n, k, (0 :> s0) @@ (LeftShoulder :> s11)) :
        n \in NormalizeLengths, k \in {1, 4, 5, 6, 7},
        s0 \in NoseScores, s11 \in AngleScores}
NewArray == 3

NormalizeInit ==
    /\ HelpersOnly
    /\ kps \in NormalizeFrames
    /\ refKps = NoKps
    /\ out = NoCall

\* normalizeKeypoints(kps)
NormalizeCall ==
    /\ out = NoCall
    /\ out' = [fn |-> "normalizeKeypoints", value |-> NormalizeKeypoints(kps, NewArray)]
    /\ UNCHANGED <<smootherVars, classifierVars, appVars, kps, refKps>>

SpecNormalize == NormalizeInit /\ [][NormalizeCall]_vars

\* Frames in which every landmark has score 1: a layout, scaled by m and
\* moved by (ox, oy).
MakePlacedKps(id, n, k, m, ox, oy) ==
    [id |-> id, len |-> n,
     at |-> [i \in 0..(n - 1) |->
               Keypoint(RatAdd(RatMul(Rat(m, 1), Layout(k, i).x), Rat(ox, 1)),
                        RatAdd(RatMul(Rat(m, 1), Layout(k, i).y), Rat(oy, 1)),
                        100)]]

FullLengths == {14, 17, 33}
Magnifications == {1, 3, 640}
Offsets == {0, 100}
FullConfidenceFrames ==
    {MakePlacedKps(1, n, k, m, ox, oy) :
        n \in FullLengths, k \in {1, 2, 3, 5, 6},
        m \in Magnifications, ox \in Offsets, oy \in Offsets}

SelfSimilarityInit ==
    /\ HelpersOnly
    /\ kps \in FullConfidenceFrames
    /\ refKps = NoKps
    /\ out = NoCall

\* calculatePoseSimilarity(normalizeKeypoints(kps), normalizeKeypoints(kps))
SelfSimilarityCall ==
    LET detected == NormalizeKeypoints(kps, NewArray)
        reference == NormalizeKeypoints(kps, NewArray + 1)
    IN  /\ out = NoCall
        /\ out' = [fn |-> "calculatePoseSimilarity",
                   value |-> [detected |-> detected,
                              positionSimilarity |->
                                  CalculatePositionSimilarity(detected, reference),
                              angleSimilarity |->
                                  CalculateAngleSimilarity(ExtractAngles(detected),
                                                           ExtractAngles(reference)),
                              combinedScore |->
                                  CalculatePoseSimilarity(detected, reference)]]
        /\ UNCHANGED <<smootherVars, classifierVars, appVars, kps, refKps>>

SpecSelfSimilarity == SelfSimilarityInit /\ [][SelfSimilarityCall]_vars

(***************************************************************************)
(* Claims about PoseDetectionSmoother                                      *)
(***************************************************************************)
\* A getSmoothedPose() value is at hand: it was computed from recentPoses as
\* it is now (getSmoothedPose does not change the history).
Returned == result # NoResult

SamePose(h, p) == \A i \in 1..Len(h) : h[i].pose = p

\* C1: getSmoothedPose returns Unknown/0 whenever the history holds fewer
\* than 3 entries, whatever their labels and confidences.
C1_FewEntriesUnknown ==
    (Returned /\ Len(recentPoses) < 3)
        => (result.pose = "Unknown" /\ result.confidence.num = 0)

\* C1 witness: two agreeing named detections after a reset, answered Unknown/0.
C1_Witness ==
    /\ Returned
    /\ resetAt >= 0
    /\ Len(recentPoses) = 2
    /\ SamePose(recentPoses, "Tree Pose")
    /\ result = UnknownResult

\* C2: the history never holds more than 10 entries, and the entries kept are
\* the most recent ones in insertion order (entry i of n is the (n-i)-th last
\* addPoseDetection call).
C2_CapKeepsNewest ==
    /\ Len(recentPoses) <= 10
    /\ \A i \in 1..Len(recentPoses) :
         recentPoses[i].seq = adds - Len(recentPoses) + i - 1

\* C2 witness: an 11th detection arrived within the window, the first was dropped.
C2_Witness ==
    /\ adds = 11
    /\ resetAt = -1
    /\ Len(recentPoses) = 10
    /\ recentPoses[1].seq = 1
    /\ now - recentPoses[1].timestamp < TtlMs

\* Entries whose age does not exceed 2000 ms at time t.
NotOlderThanTtl(h, t) == SelectSeq(h, LAMBDA e : t - e.timestamp <= 2000)

\* C3 (as claimed): whenever getSmoothedPose is called, no entry older than
\* 2000 ms contributes: the value returned is the one computed from the
\* entries that are at most 2000 ms old.
C3_StaleExcluded ==
    Returned => result = GetSmoothedPose(NotOlderThanTtl(recentPoses, now))

\* The labels of a history, and the claim's own reading of fraction and score.
LabelsOf(h) == {h[i].pose : i \in 1..Len(h)}
Occurrences(h, p) == Cardinality({i \in 1..Len(h) : h[i].pose = p})
ReachesFraction(h, p) == 10 * Occurrences(h, p) >= 4 * Len(h)
Candidates(h) == {p \in LabelsOf(h) : ReachesFraction(h, p)}
\* 0.7 * fraction + 0.3 * (summed confidence / count)
ClaimedScore(h, p) ==
    Frac(7 * Occurrences(h, p) * 100 * Occurrences(h, p)
             + 3 * TotalConfidence(h, p) * Len(h),
         10 * Len(h) * 100 * Occurrences(h, p))
IsTopCandidate(h, p) ==
    /\ p \in Candidates(h)
    /\ \A q \in Candidates(h) : FracGe(ClaimedScore(h, p), ClaimedScore(h, q))

\* C4 (as claimed): with at least 3 entries the label returned is a candidate
\* of highest score and the confidence returned is that score; Unknown/0 when
\* there is no candidate.
C4_BestScoreReturned ==
    (Returned /\ Len(recentPoses) >= 3) =>
        IF Candidates(recentPoses) = {}
        THEN result.pose = "Unknown" /\ result.confidence.num = 0
        ELSE /\ IsTopCandidate(recentPoses, result.pose)
             /\ FracEq(result.confidence, ClaimedScore(recentPoses, result.pose))

\* C4 (amended): as above, but when the label of highest score is itself
\* 'Unknown' the confidence returned is 0, not the score.
C4_BestScoreUnlessUnknown ==
    (Returned /\ Len(recentPoses) >= 3) =>
        IF Candidates(recentPoses) = {}
        THEN result.pose = "Unknown" /\ result.confidence.num = 0
        ELSE /\ IsTopCandidate(recentPoses, result.pose)
             /\ IF result.pose = "Unknown"
                THEN result.confidence.num = 0
                ELSE FracEq(result.confidence,
                            ClaimedScore(recentPoses, result.pose))

\* C4 witness: 2 of 5 entries (exactly 40%) carry the winning label, which
\* beats a label with more occurrences on confidence; and no-candidate is
\* covered by C4_WitnessNone.
C4_Witness ==
    /\ Returned
    /\ Len(recentPoses) = 5
    /\ result.pose = "Chair Pose"
    /\ Occurrences(recentPoses, "Chair Pose") = 2
    /\ Occurrences(recentPoses, "Tree Pose") = 2
    /\ recentPoses[1].pose = "Tree Pose"

\* C5: after reset() the history is empty, and until 3 further detections
\* have been added getSmoothedPose returns Unknown/0; no entry added before
\* the reset is in the history afterwards.
C5_ResetClears ==
    resetAt >= 0 =>
        /\ \A i \in 1..Len(recentPoses) : recentPoses[i].seq >= resetAt
        /\ GetHistorySize(recentPoses) <= adds - resetAt
        /\ (Returned /\ adds - resetAt < 3) => result = UnknownResult

\* C5 witness: a populated history was reset, 2 more detections were added
\* and the answer is Unknown/0.
C5_Witness ==
    /\ Returned
    /\ ticks = 0
    /\ resetAt = 2
    /\ adds = 4
    /\ SamePose(recentPoses, "Tree Pose")
    /\ Len(recentPoses) = 2
    /\ result = UnknownResult

RECURSIVE SumConfidence(_)
SumConfidence(h) ==
    IF h = <<>> THEN 0 ELSE Head(h).confidence + SumConfidence(Tail(h))

AllWithinWindow(h, t) == \A i \in 1..Len(h) : t - h[i].timestamp < 2000

\* C6: n >= 3 entries, all within the window and all with the same
\* non-Unknown label L, give L with confidence 0.7 + 0.3 * mean confidence
\* (which is 1.0 when every confidence is 1.0).
C6_UnanimousHistory ==
    \A L \in TimedPoses \ {"Unknown"} :
        ( /\ Returned
          /\ Len(recentPoses) >= 3
          /\ SamePose(recentPoses, L)
          /\ AllWithinWindow(recentPoses, now) ) =>
            /\ result.pose = L
            /\ FracEq(result.confidence,
                      Frac(70 * Len(recentPoses) * 10 + 3 * SumConfidence(recentPoses),
                           1000 * Len(recentPoses)))
            /\ (\A i \in 1..Len(recentPoses) : recentPoses[i].confidence = 100)
                   => FracEq(result.confidence, Frac(1, 1))

\* C6 witness: three identical detections of confidence 1.0 give confidence 1.0.
C6_Witness ==
    /\ Returned
    /\ Len(recentPoses) = 3
    /\ SamePose(recentPoses, "Tree Pose")
    /\ \A i \in 1..3 : recentPoses[i].confidence = 100
    /\ result.pose = "Tree Pose"
    /\ result.confidence.num = result.confidence.den

\* A step that is one addPoseDetection call.
AddStep == adds' = adds + 1

\* C21: right after an addPoseDetection at time t every entry has a
\* timestamp strictly greater than t - 2000, the entry just added is the
\* newest one, and the history holds at most 10 entries.
C21_CapAndAgeAfterAdd ==
    [][ AddStep =>
          /\ \A i \in 1..Len(recentPoses') :
                recentPoses'[i].timestamp > now - 2000
          /\ Len(recentPoses') >= 1
          /\ recentPoses'[Len(recentPoses')].seq = adds
          /\ recentPoses'[Len(recentPoses')].timestamp = now
          /\ Len(recentPoses') <= 10 ]_vars

\* C21 witness: ten detections at time 0 and an eleventh at time 2000: it
\* overflows the cap and the nine older entries left are exactly 2000 ms
\* old; the history holds the eleventh detection only.
C21_Witness ==
    /\ adds = 11
    /\ resetAt = -1
    /\ now = 2000
    /\ result = NoResult
    /\ Len(recentPoses) = 1
    /\ recentPoses[1].seq = 10
    /\ recentPoses[1].timestamp = 2000

\* C22 (as claimed): of two labels that both appear in at least 40% of the
\* history, the one with fewer occurrences is never the one returned.
C22_MostFrequentReturned ==
    (Returned /\ Len(recentPoses) >= 3) =>
        \A p, q \in Candidates(recentPoses) :
            Occurrences(recentPoses, p) > Occurrences(recentPoses, q)
                => result.pose # q

\* A label that accounts for more than 60% of a history of at least 3
\* entries is the label getSmoothedPose returned.
MajorityReturned ==
    (Returned /\ Len(recentPoses) >= 3) =>
        \A L \in LabelsOf(recentPoses) :
            10 * Occurrences(recentPoses, L) > 6 * Len(recentPoses)
                => result.pose = L

\* An addPoseDetection call that adds a detection of another label to a full
\* window of agreeing detections.
OutlierStep ==
    /\ AddStep
    /\ Len(recentPoses) = MaxHistoryLength
    /\ \E L \in LabelsOf(recentPoses) : SamePose(recentPoses, L)
    /\ recentPoses'[Len(recentPoses')].pose \notin LabelsOf(recentPoses)

C24_WitnessLowest ==
    /\ Returned
    /\ Len(recentPoses) = 5
    /\ result.pose = "Tree Pose"
    /\ FracEq(result.confidence, Frac(28, 100))

(***************************************************************************)
(* Claims about classifyPose                                               *)
(***************************************************************************)
Classified == classified # NotClassified

NamedPoses == {Patterns[i].pose : i \in DOMAIN Patterns}

\* C8 (as claimed): every classifyPose result that is not a named pose is the
\* canonical no-determination value: label exactly 'Unknown', confidence 0.
C8_NoDeterminationIsUnknownZero ==
    (Classified /\ classified.pose \notin NamedPoses)
        => (classified.pose = "Unknown" /\ classified.confidence.num = 0)

\* The number of critical landmarks (shoulders, hips) with a score above 0.5.
CriticalAboveHalf(f) ==
    Cardinality({k \in {LeftShoulder, RightShoulder, LeftHip, RightHip} :
                    k < f.len /\ f.score[k] > 50})

\* C9: with fewer than 3 of the four critical landmarks above 0.5 the frame
\* is rejected as Unknown/0 before the pattern chain (which starts at line
\* 55), whatever the other scores and the positions are.
C9_CriticalGateRejects ==
    (Classified /\ CriticalAboveHalf(frame) < 3) =>
        /\ classified.pose = "Unknown"
        /\ classified.confidence.num = 0
        /\ classified.line < 55

\* C9 witness: two critical landmarks above 0.5, a third at exactly 0.5, hips
\* and legs visible and a position that matches a pattern; rejected at line 46.
C9_Witness ==
    /\ Classified
    /\ frame.len = 33
    /\ frame.match > 0
    /\ CriticalAboveHalf(frame) = 2
    /\ frame.score[LeftShoulder] = 0
    /\ frame.score[RightShoulder] = 50
    /\ classified = Classification("Unknown", Zero, 46)

(***************************************************************************)
(* Component claims, checked under SpecApp                                 *)
(***************************************************************************)
\* The last handler was the loop callback on a frame with landmarks.
FrameClassified == "classifyPose" \in called

\* C7: the pose and confidence published for a frame are the smoother's
\* output, so the first 2 frames processed after the camera went on publish
\* Unknown with confidence 0 whatever each frame classifies as.
C7_FirstFramesUnknown ==
    (FrameClassified /\ framesSinceOn \in 1..(MinHistory - 1))
        => (currentPose = "Unknown" /\ confidence = 0)

\* C10: once the context has changed (a new target pose selected, the camera
\* stopped or switched), no frame is classified before
\* PoseDetectionSmoother.reset() has been called.
C10_ResetBeforeNextFrame == FrameClassified => ~contextStale

\* The name has, somewhere, the letters u-n-k-n-o-w-n in a row, each in
\* either case.
ContainsUnknownAnyCase(name) ==
    LET str == Chars[name]
        either == << {"u", "U"}, {"n", "N"}, {"k", "K"}, {"n", "N"},
                     {"o", "O"}, {"w", "W"}, {"n", "N"} >>
    IN  \E i \in 0..(Len(str) - 7) : \A k \in 1..7 : str[i + k] \in either[k]

\* C11: no entry of posesData has a name containing 'unknown' in any letter
\* case; a failed load leaves posesData as it was (empty) and, when it
\* returns, an error is reported.
C11_CatalogExcludesUnknown ==
    /\ \A i \in 1..Len(posesData) : ~ContainsUnknownAnyCase(posesData[i])
    /\ posesLoad = "failed" => posesData = <<>>
    /\ (posesLoad = "failed" /\ called = {"fetch"}) => error # ""

\* C11 witness: the file with 'unknow' and 'Unknown Pose' was loaded; only
\* the entry that does not contain 'unknown' is published.
C11_Witness ==
    /\ posesLoad = "done"
    /\ called = {"fetch"}
    /\ posesData = <<"unknow">>

\* C12 (as claimed): poseCount is the number of different poses detected at
\* or above the confidence threshold so far.
C12_CountsDistinctPoses == poseCount = Cardinality(detectedPoses)

(***************************************************************************)
(* Claims about the helper functions of poseHelpers.ts                     *)
(***************************************************************************)
\* The joint's three landmarks all exist in f with a score above 0.3.
AllThreeVisible(f, pair) ==
    \A k \in 1..3 :
        /\ pair.at[k] < f.len
        /\ f.at[pair.at[k]].score # Undefined
        /\ f.at[pair.at[k]].score > 30

\* C13: extractAngles has a joint in its result if and only if the joint's
\* three landmarks exist and each has a score strictly above 0.3, a missing
\* score counting as 0; a joint that fails is absent, not present with 0.
C13_AnglePresentIffVisible ==
    out.fn = "extractAngles" =>
        \A i \in DOMAIN ANGLE_PAIRS :
            (ANGLE_PAIRS[i].name \in DOMAIN out.value)
                <=> AllThreeVisible(kps, ANGLE_PAIRS[i])

\* C13 witness: leftElbow is in the result with a zero angle, leftShoulder is
\* absent because landmark 5 scores exactly 0.3, rightKnee is absent because
\* the frame is too short.
C13_Witness ==
    /\ out.fn = "extractAngles"
    /\ kps.len = 16
    /\ kps.at[5].score = 30
    /\ "leftElbow" \in DOMAIN out.value
    /\ out.value["leftElbow"] = 0
    /\ "leftShoulder" \notin DOMAIN out.value
    /\ "rightKnee" \notin DOMAIN out.value

\* The joints that both angle records have.
SharedJoints == DOMAIN kps \cap DOMAIN refKps

\* The sum over the joints in S of |observed - reference|.
RECURSIVE TotalAngleGap(_)
TotalAngleGap(S) ==
    IF S = {} THEN 0
    ELSE LET j == CHOOSE n \in S : TRUE
             gap == IF kps[j] < refKps[j] THEN refKps[j] - kps[j]
                    ELSE kps[j] - refKps[j]
         IN  gap + TotalAngleGap(S \ {j})

\* C15: calculateAngleSimilarity compares only the joints present in both
\* records; it is max(0, 1 - mean(|observed - reference| / 180)) over them,
\* and 0 when there is none.
C15_AngleSimilarityOverShared ==
    out.fn = "calculateAngleSimilarity" =>
        LET n == Cardinality(SharedJoints)
            gap == TotalAngleGap(SharedJoints)
        IN  IF n = 0 THEN out.value.num = 0
            ELSE IF gap >= 180 * n THEN out.value.num = 0
            ELSE out.value.num * (180 * n) = (180 * n - gap) * out.value.den

\* C15 witness: the reference has a joint the observation lacks and the
\* observation has one the reference lacks; the one shared joint differs by
\* 90 degrees and the similarity is 1/2.
C15_Witness ==
    /\ out.fn = "calculateAngleSimilarity"
    /\ DOMAIN kps = {"leftElbow", "leftKnee"}
    /\ DOMAIN refKps = {"leftElbow", "rightElbow"}
    /\ kps["leftElbow"] = 90
    /\ refKps["leftElbow"] = 0
    /\ out.value = Rat(1, 2)

\* The core landmarks present in both frames with an observed score >= 0.3.
UsableCore ==
    {i \in {5, 6, 7, 8, 9, 10, 11, 12, 13, 14, 23, 24, 25, 26, 27, 28} :
        /\ i < kps.len
        /\ i < refKps.len
        /\ kps.at[i].score # Undefined
        /\ kps.at[i].score >= 30}

\* The sums over the landmarks in S of score * distance and of score.
RECURSIVE WeightedDistance(_)
WeightedDistance(S) ==
    IF S = {} THEN Zero
    ELSE IF Cardinality(S) = 1
    THEN LET i == CHOOSE j \in S : TRUE
         IN  RatMul(Rat(kps.at[i].score, 1), Distance(kps.at[i], refKps.at[i]))
    ELSE RatAdd(WeightedDistance(LowerHalf(S)), WeightedDistance(S \ LowerHalf(S)))
RECURSIVE TotalWeight(_)
TotalWeight(S) ==
    IF S = {} THEN 0
    ELSE LET i == CHOOSE j \in S : TRUE
         IN  kps.at[i].score + TotalWeight(S \ {i})

\* C14: with fewer than 8 usable core landmarks the position similarity is
\* 0 and the combined score is 0.6 times the angle similarity, at most 0.6;
\* with 8 or more the position similarity is max(0, 1 - confidence-weighted
\* mean distance).
C14_PositionSimilarityGate ==
    out.fn = "calculatePoseSimilarity" =>
        IF Cardinality(UsableCore) < 8
        THEN /\ out.value.positionSimilarity.num = 0
             /\ out.value.combinedScore
                  = RatMul(Rat(6, 10), out.value.angleSimilarity)
             /\ ~RatLt(Rat(6, 10), out.value.combinedScore)
        ELSE LET mean == RatDiv(WeightedDistance(UsableCore),
                                Rat(TotalWeight(UsableCore), 1))
             IN  out.value.positionSimilarity
                   = (IF RatLt(One, mean) THEN Zero ELSE RatSub(One, mean))

\* C14 witness, below the gate: 7 usable core landmarks (the face, the
\* elbows and an ankle score 0.29 or nothing), the remaining joints have equal
\* angles, and the combined score is 0.6.
C14_Witness ==
    /\ out.fn = "calculatePoseSimilarity"
    /\ kps.len = 33
    /\ refKps.len = 33
    /\ Cardinality(UsableCore) = 7
    /\ kps.at[27].score = 29
    /\ out.value.positionSimilarity.num = 0
    /\ out.value.angleSimilarity = One
    /\ out.value.combinedScore = Rat(6, 10)

\* The landmarks of kps with a score above 0.3.
VisibleLandmarks ==
    {i \in 0..(kps.len - 1) : kps.at[i].score # Undefined /\ kps.at[i].score > 30}

\* A torso landmark is missing or not above 0.3, or the torso scale is not
\* positive.
FallsBack ==
    \/ \E i \in {11, 12, 23, 24} :
          i >= kps.len \/ kps.at[i].score = Undefined \/ kps.at[i].score <= 30
    \/ ScaleOf(kps).num <= 0

\* The smallest and largest of the coordinate c ("x" or "y") of the landmarks
\* S in frame f.
Smallest(f, S, c) ==
    CHOOSE v \in {f.at[i][c] : i \in S} : \A i \in S : ~RatLt(f.at[i][c], v)
Largest(f, S, c) ==
    CHOOSE v \in {f.at[i][c] : i \in S} : \A i \in S : ~RatLt(v, f.at[i][c])

\* C17 (as claimed): normalizeKeypoints returns a frame of the same length,
\* and in the fallback the bounding box of the visible landmarks, when it has
\* a width and a height, is stretched to [0,1] x [0,1].
C17_FallbackStretchesVisibleBox ==
    out.fn = "normalizeKeypoints" =>
        /\ out.value.len = kps.len
        /\ (/\ kps.len > 0
            /\ FallsBack
            /\ VisibleLandmarks # {}
            /\ \A c \in {"x", "y"} :
                  Smallest(kps, VisibleLandmarks, c) # Largest(kps, VisibleLandmarks, c))
           => \A c \in {"x", "y"} :
                 /\ Smallest(out.value, VisibleLandmarks, c) = Zero
                 /\ Largest(out.value, VisibleLandmarks, c) = One

\* C18 (as claimed): normalizeKeypoints returns an array that is not its
\* input, with every keypoint's score as it was.
C18_ReturnsNewFrame ==
    out.fn = "normalizeKeypoints" =>
        /\ out.value.id # kps.id
        /\ out.value.len = kps.len
        /\ \A i \in 0..(kps.len - 1) : out.value.at[i].score = kps.at[i].score

\* Every landmark of kps has score 1.
FullConfidence == \A i \in 0..(kps.len - 1) : kps.at[i].score = 100

\* C16: for a frame F in which every landmark has full confidence,
\* calculatePoseSimilarity(normalizeKeypoints(F), normalizeKeypoints(F)) is
\* exactly 1, with position similarity 1 and angle similarity 1.
C16_SelfSimilarityIsOne ==
    (out.fn = "calculatePoseSimilarity" /\ FullConfidence) =>
        /\ out.value.positionSimilarity = One
        /\ out.value.angleSimilarity = One
        /\ out.value.combinedScore = One

\* C16 witness: a frame of 33 keypoints in pixel coordinates, normalized by
\* its torso (the left shoulder moves from y = 740 to y = 7/10).
C16_Witness ==
    /\ out.fn = "calculatePoseSimilarity"
    /\ FullConfidence
    /\ kps.len = 33
    /\ kps.at[LeftShoulder].y = Rat(740, 1)
    /\ out.value.detected.id # kps.id
    /\ out.value.detected.at[LeftShoulder].y = Rat(7, 10)
    /\ out.value.combinedScore = One

\* C19 (as claimed): the label of a frame is decided by scoring the frame
\* against every catalog entry and accepting the best entry at a score of
\* 0.55 or more, so the label published is Unknown or the name of a catalog
\* entry.
C19_LabelIsBestCatalogEntry ==
    FrameClassified =>
        \/ currentPose = "Unknown"
        \/ \E i \in 1..Len(posesData) : posesData[i] = currentPose


\* A step of the detection loop on a video frame, and a step in which React
\* ran the effects of the last render.
FrameStep == "detectForVideo" \in called'
EffectsStep == loop' # loop

\* The label shown came from a frame and makes no determination.
NoDeterminationFromFrame == framesSinceOn > 0 /\ currentPose \in NotDetectedLabels

\* C20 (as claimed): a frame whose label is 'Unknown', 'Unknown Pose' or
\* 'No pose detected' leaves matchedPose null and does not set
\* selectedPoseIndex to a catalog index, and the detected-pose panel rendered
\* for such a label shows the placeholder image.
C20_NoDeterminationShowsPlaceholder ==
    [][ /\ (FrameStep /\ currentPose' \in NotDetectedLabels) =>
              /\ matchedPose' = "null"
              /\ selectedPoseIndex' \in {NullIndex, selectedPoseIndex}
        /\ (EffectsStep /\ NoDeterminationFromFrame) =>
              detectedImage' = Placeholder ]_vars

\* C20 (amended): a frame whose label is 'Unknown', 'Unknown Pose' or
\* 'No pose detected' leaves matchedPose null and does not set
\* selectedPoseIndex to a catalog index, and the detected-pose panel rendered
\* for such a label never shows a catalog entry: it shows the placeholder
\* image when the catalog has entries and no image at all while the catalog
\* is empty.
C20_NoDeterminationResolvesNothing ==
    [][ /\ (FrameStep /\ currentPose' \in NotDetectedLabels) =>
              /\ matchedPose' = "null"
              /\ selectedPoseIndex' \in {NullIndex, selectedPoseIndex}
        /\ (EffectsStep /\ NoDeterminationFromFrame) =>
              detectedImage' = IF Len(posesData) = 0 THEN NoImage ELSE Placeholder ]_vars

\* A frame labelled 'Unknown Pose' followed a detected pose, with the
\* catalog loaded, and the panel was rendered for it.
C20_Witness ==
    /\ NoDeterminationFromFrame
    /\ currentPose = "Unknown Pose"
    /\ detectedPoses # {}
    /\ Len(posesData) > 0
    /\ loop.deps = Deps
    /\ matchedPose = "null"
    /\ selectedPoseIndex = NullIndex
    /\ detectedImage = Placeholder


\* A frame that begins a run of detected frames of one pose, and a frame
\* that continues the run in progress.
RunBegins == FrameStep /\ run' # "" /\ run' # run
RunContinues == FrameStep /\ run # "" /\ run' = run

\* C25 (as claimed): in an uninterrupted run of frames classified as the
\* same pose at or above the threshold, the first frame increments poseCount
\* and plays the success sound, and no later frame of the run does.
C25_CountedOncePerRun ==
    [][ /\ RunBegins =>
              (poseCount' = poseCount + 1 /\ "playSuccessSound" \in called')
        /\ RunContinues =>
              (poseCount' = poseCount /\ "playSuccessSound" \notin called') ]_vars

\* C26 (as claimed): processing a detection frame, whatever it is classified
\* as, leaves selectedPoseIndex as it was.
C26_FramesKeepSelection ==
    [][ FrameStep => selectedPoseIndex' = selectedPoseIndex ]_vars

\* loadPoseModel comes to its end in this step.
ModelLoadEnds == modelLoad = "pending" /\ modelLoad' # "pending"

\* C27 (as claimed): a model load that ends after the unmount installs
\* nothing: the landmarker it created is closed, landmarkerRef.current stays
\* null and isModelLoaded is not set to true.
C27_NoInstallAfterUnmount ==
    [][ (~mounted /\ ModelLoadEnds) =>
            /\ modelLoad' \in {"closed", "failed"}
            /\ landmarkerRef' = "null"
            /\ ~isModelLoaded' ]_vars

\* C29 (as claimed): whenever isCameraOn is true the video element holds a
\* stream whose tracks are live.
C29_OnMeansLive == isCameraOn => srcObject = "live"

\* C28 (as claimed): once isCameraLoading is true it becomes false again,
\* with isCameraOn true or an error message set, whatever the outcome of the
\* camera request.
C28_LoadingEnds ==
    isCameraLoading ~> (~isCameraLoading /\ (isCameraOn \/ error # ""))

\* The camera is off and the video element holds no stream: the state from
\* stopCamera until a startCamera call attaches its stream.
CameraStopped == ~isCameraOn /\ srcObject = "null"

\* C30: while the camera is stopped the displayed pose is 'Unknown' with
\* confidence 0 and lastDetectedPose is empty; poseCount does not change
\* then, a loop callback still scheduled included, nor in stopCamera itself.
C30_StoppedStaysUnknown ==
    [][ /\ CameraStopped' =>
              (currentPose' = "Unknown" /\ confidence' = 0 /\ lastDetectedPose' = "")
        /\ (CameraStopped /\ CameraStopped') => poseCount' = poseCount
        /\ (isCameraOn /\ ~isCameraOn') => poseCount' = poseCount ]_vars

\* C30 witness: the camera was stopped after a pose was counted, and the
\* loop callback scheduled before the stop has not been cancelled yet.
C30_Witness ==
    /\ CameraStopped
    /\ mounted
    /\ loop.scheduled
    /\ loop.deps.isCameraOn
    /\ loop.deps.currentPose = "Tree Pose"
    /\ poseCount = 1
    /\ currentPose = "Unknown"
    /\ confidence = 0
    /\ lastDetectedPose = ""

====
